---- MODULE Spec2Model ----
(***************************************************************************)
(* Model of zduu/domain-scanner: the candidate generator                   *)
(* (internal/generator), the classifier (internal/domain), the worker      *)
(* (internal/worker) and the pipeline that main.go builds around them.     *)
(*                                                                         *)
(* Go strings are modelled as sequences of one-character strings, so that  *)
(* len, concatenation, strings.Contains, strings.ToLower, strings.ToUpper  *)
(* and strings.TrimPrefix are computed and not assumed.                    *)
(***************************************************************************)
EXTENDS Integers, Sequences, FiniteSets, Bags, TLC

\* ------------------------------------------------------------------ bounds

\* Largest domain length a configuration may ask for.  19 is the first length
\* at which 10^length no longer fits a Go int (64 bit).
MaxLen == 19

\* Largest loop bound `total` of generateCombinationsIterative the model
\* enumerates; configurations with a larger (positive) total are not drawn.
MaxEnum == 676

\* Largest number of candidates a run of the generator alone emits.
MaxEmit == 100

\* Largest number of candidates a run of the pipeline of main.go handles.
MaxCands == 2

\* Largest worker count (-workers).
MaxWorkers == 2

\* The matches of one run that may run out of time.
MaxTimeouts == 1

\* The goroutines that call addToSpecialStatus at the same time.
MaxAdders == 3

\* The calls of addToSpecialStatus that are followed.
MaxCalls == 3

\* ------------------------------------------------------- Go int (64 bit)

\* A Go int is held as four 16-bit limbs, least significant first, so that
\* `total *= charsetSize` wraps at 2^64 as the machine does.
LimbBase == 65536

LimbCount == 4

IntOne == <<1, 0, 0, 0>>

RECURSIVE MulLimbs(_, _, _)
\* limbs * m + carry, limb by limb; the carry out of the last limb is kept as
\* further limbs (exact product, no wrap).
MulLimbs(limbs, m, carry) ==
    IF limbs = <<>>
    THEN IF carry = 0 THEN <<>> ELSE <<carry % LimbBase>> \o MulLimbs(<<>>, m, carry \div LimbBase)
    ELSE LET p == Head(limbs) * m + carry
         IN  <<p % LimbBase>> \o MulLimbs(Tail(limbs), m, p \div LimbBase)

\* total *= charsetSize on a 64-bit int: the product modulo 2^64.
IntMul(x, m) == SubSeq(MulLimbs(x, m, 0), 1, LimbCount)

\* x < 0 in two's complement.
IntNegative(x) == x[LimbCount] >= LimbBase \div 2

\* x = 0
IntIsZero(x) == \A k \in 1..LimbCount : x[k] = 0

\* n < x for a small non-negative n (n < LimbBase) and a 64-bit x.
IntLess(n, x) ==
    /\ ~IntNegative(x)
    /\ \/ \E k \in 2..LimbCount : x[k] # 0
       \/ n < x[1]

\* x <= n for a small non-negative n (n < LimbBase) and a 64-bit x.
IntAtMost(x, n) == ~IntLess(n, x)

\* ------------------------------------------------------------ strings

letters == <<"a","b","c","d","e","f","g","h","i","j","k","l","m",
             "n","o","p","q","r","s","t","u","v","w","x","y","z">>

numbers == <<"0","1","2","3","4","5","6","7","8","9">>

upperLetters == <<"A","B","C","D","E","F","G","H","I","J","K","L","M",
                  "N","O","P","Q","R","S","T","U","V","W","X","Y","Z">>

\* strings.ToLower, strings.ToUpper on one character (ASCII letters).
LowerChar(c) ==
    IF \E k \in 1..26 : upperLetters[k] = c
    THEN letters[CHOOSE k \in 1..26 : upperLetters[k] = c]
    ELSE c

UpperChar(c) ==
    IF \E k \in 1..26 : letters[k] = c
    THEN upperLetters[CHOOSE k \in 1..26 : letters[k] = c]
    ELSE c

ToLower(s) == [k \in 1..Len(s) |-> LowerChar(s[k])]

ToUpper(s) == [k \in 1..Len(s) |-> UpperChar(s[k])]

\* strings.HasPrefix, strings.HasSuffix
HasPrefix(s, p) == Len(p) <= Len(s) /\ SubSeq(s, 1, Len(p)) = p

HasSuffix(s, p) == Len(p) <= Len(s) /\ SubSeq(s, Len(s) - Len(p) + 1, Len(s)) = p

\* strings.TrimPrefix
TrimPrefix(s, p) == IF HasPrefix(s, p) THEN SubSeq(s, Len(p) + 1, Len(s)) ELSE s

\* strings.Contains
Contains(s, sub) ==
    \E k \in 0..(Len(s) - Len(sub)) : SubSeq(s, k + 1, k + Len(sub)) = sub

\* Some element of the list is a substring of s.
ContainsAny(s, list) == \E k \in 1..Len(list) : Contains(s, list[k])

\* The elements of a sequence.
Range(seq) == { seq[k] : k \in 1..Len(seq) }

\* strings.Count(s, c) for a one-character c
Count(s, c) == Cardinality({k \in 1..Len(s) : s[k] = c})

\* A character outside ASCII (U+00E9), two bytes in a Go string.
NonAscii == "U+00E9"

\* len(s): the number of bytes of a Go string.
ByteLen(s) == Len(s) + Count(s, NonAscii)

\* ------------------------------------------------- run configuration

VARIABLES
    length,          \* -l
    suffix,          \* -s, with its leading dot
    pattern,         \* -p
    regexFilter,     \* -r ("" when there is no filter)
    regexMode,       \* -regex-mode: "full" or "prefix"
    workers,         \* -workers
    showRegistered,  \* -show-registered
    globalConfig     \* the checker's globalConfig: "nil" or the Methods switches

cfgVars == <<length, suffix, pattern, regexFilter, regexMode, workers,
             showRegistered, globalConfig>>

\* The value of a nil pointer, a nil error and an absent item.
Nil == "nil"

Patterns == {"d", "D", "a", "x"}

ValidPattern(p) == p \in {"d", "D", "a"}

\* The charset GenerateDomains hands to generateCombinationsIterative.
CharsetOf(p) ==
    CASE p = "d" -> numbers
      [] p = "D" -> letters
      [] p = "a" -> letters \o numbers
      [] OTHER   -> <<>>

DefaultSuffix == <<".", "l", "i">>

Suffixes == { DefaultSuffix, <<".", "a", "i">> }

RegexModes == {"full", "prefix"}

\* The filters of the model, by their source text.
RegexFilters == {"", "^a", "^[0-1]", "(1+1*)*2", "\\.ai$", "(a+)+", "[a"}

\* The characters of each filter, as validateRegexComplexity reads them.
FilterChars(regex) ==
    CASE regex = "^a"       -> <<"^", "a">>
      [] regex = "^[0-1]"   -> <<"^", "[", "0", "-", "1", "]">>
      [] regex = "(1+1*)*2" -> <<"(", "1", "+", "1", "*", ")", "*", "2">>
      [] regex = "\\.ai$"   -> <<"\\", ".", "a", "i", "$">>
      [] regex = "(a+)+"    -> <<"(", "a", "+", ")", "+">>
      [] regex = "[a"       -> <<"[", "a">>
      [] regex = "^9|^8999" -> <<"^", "9", "|", "^", "8", "9", "9", "9">>
      [] OTHER              -> <<>>

\* The error of regexp2.Compile: the set of "[a" is not terminated.
ErrCompile == "unterminated [] set"

Compile(regex) == IF regex = "[a" THEN ErrCompile ELSE Nil

\* regexp2's MatchString for the filters of the model: [match, err].
MatchString(regex, input) ==
    CASE regex = "^a" ->
           [match |-> Len(input) > 0 /\ input[1] = "a", err |-> Nil]
      [] regex = "^[0-1]" ->
           [match |-> Len(input) > 0 /\ input[1] \in {"0", "1"}, err |-> Nil]
      [] regex = "\\.ai$" ->
           [match |-> HasSuffix(input, <<".", "a", "i">>), err |-> Nil]
      [] regex = "(1+1*)*2" ->
           [match |-> \E k \in 1..Len(input) : input[k] = "2", err |-> Nil]
      [] regex = "(a+)+" ->
           [match |-> \E k \in 1..Len(input) : input[k] = "a", err |-> Nil]
      [] regex = "^9|^8999" ->
           [match |-> \/ HasPrefix(input, <<"9">>)
                      \/ HasPrefix(input, <<"8", "9", "9", "9">>),
            err |-> Nil]
      [] OTHER ->
           [match |-> FALSE, err |-> Nil]

\* The error of a match that ran longer than regex.MatchTimeout.
ErrMatchTimeout == "match timeout"

\* The matches that backtrack, so that they may run out of time: the
\* repeated group of this filter has something to repeat when the input has
\* a "1".
MayTimeOut(regex, input) ==
    regex = "(1+1*)*2" /\ \E k \in 1..Len(input) : input[k] = "1"

\* safeRegexMatch: (true, nil) for a nil regex, else MatchString's answer,
\* (false, err) when it fails; timeout says whether this match ran out of time.
safeRegexMatch(regex, input, timeout) ==
    IF regex = ""
    THEN [match |-> TRUE, err |-> Nil]
    ELSE LET r == IF timeout
                  THEN [match |-> FALSE, err |-> ErrMatchTimeout]
                  ELSE MatchString(regex, input)
         IN  IF r.err # Nil THEN [match |-> FALSE, err |-> r.err] ELSE r

\* ---------------------------------------- validateRegexComplexity

maxPatternLength == 200

maxQuantifiers == 5

\* dangerousPatterns:
\*   (.*)*
\*   (.+)+
\*   (a+)+
\*   (a*)*
\*   (.{0,})*
\*   (\w+)*\w*
dangerousPatterns == <<
    <<"(",".","*",")","*">>,
    <<"(",".","+",")","+">>,
    <<"(","a","+",")","+">>,
    <<"(","a","*",")","*">>,
    <<"(",".","{","0",",","}",")","*">>,
    <<"(","\\","w","+",")","*","\\","w","*">>
    >>

ErrTooLong == "regex pattern too long (max 200 characters)"

ErrDangerous == "detected potentially dangerous regex pattern"

ErrQuantifiers == "too many quantifiers in regex pattern (max 5)"

\* A guard that lets every filter through.
validateRegexComplexity_AcceptAll(p) ==
    Nil

\* validateRegexComplexity(pattern): the error it returns, Nil for nil.
validateRegexComplexity(p) ==
    IF ByteLen(p) > maxPatternLength
    THEN ErrTooLong
    ELSE IF ContainsAny(p, dangerousPatterns)
    THEN ErrDangerous
    ELSE IF Count(p, "+") + Count(p, "*") > maxQuantifiers
    THEN ErrQuantifiers
    ELSE Nil

\* ------------------------------------------------------------ generator

RECURSIVE TotalOf(_, _)
\* total := 1; for i := 0; i < length; i++ { total *= charsetSize }
TotalOf(charsetSize, len) ==
    IF len <= 0 THEN IntOne ELSE IntMul(TotalOf(charsetSize, len - 1), charsetSize)

IntZero == <<0, 0, 0, 0>>

\* CalculateDomainsCount(length, pattern): the switch on pattern, then
\* total := 1; for i := 0; i < length; i++ { total *= charsetSize }.
CalculateDomainsCount(len, p) ==
    CASE p = "d" -> TotalOf(10, len)
      [] p = "D" -> TotalOf(26, len)
      [] p = "a" -> TotalOf(36, len)
      [] OTHER   -> IntZero

\* The conversion with the least significant symbol first.
CounterToString_LsbFirst(charset, temp, n) ==
    [i \in 1..n |-> charset[((temp \div (Len(charset) ^ (i - 1))) % Len(charset)) + 1]]

RECURSIVE CounterToString(_, _, _)
\* current = string(charset[temp%charsetSize]) + current; temp /= charsetSize,
\* n times.
CounterToString(charset, temp, n) ==
    IF n = 0
    THEN <<>>
    ELSE CounterToString(charset, temp \div Len(charset), n - 1)
            \o <<charset[(temp % Len(charset)) + 1]>>

\* The same with the body alone matched in both modes.
MatchOf_BodyOnly(regex, mode, current, domain, timeout) ==
    CASE mode \in {"full", "prefix"} ->
           IF regex = ""
           THEN TRUE
           ELSE LET r == safeRegexMatch(regex, current, timeout)
                IN  IF r.err # Nil THEN FALSE ELSE r.match
      [] OTHER -> FALSE

\* The same with a failed match taken as a match.
MatchOf_ErrorMatches(regex, mode, current, domain, timeout) ==
    CASE mode = "full" ->
           IF regex = ""
           THEN TRUE
           ELSE LET r == safeRegexMatch(regex, domain, timeout)
                IN  IF r.err # Nil THEN TRUE ELSE r.match
      [] mode = "prefix" ->
           IF regex = ""
           THEN TRUE
           ELSE LET r == safeRegexMatch(regex, current, timeout)
                IN  IF r.err # Nil THEN TRUE ELSE r.match
      [] OTHER -> FALSE

\* The match decision of one loop iteration of generateCombinationsIterative.
MatchOf(regex, mode, current, domain, timeout) ==
    CASE mode = "full" ->
           IF regex = ""
           THEN TRUE
           ELSE LET r == safeRegexMatch(regex, domain, timeout)
                IN  IF r.err # Nil THEN FALSE ELSE r.match
      [] mode = "prefix" ->
           IF regex = ""
           THEN TRUE
           ELSE LET r == safeRegexMatch(regex, current, timeout)
                IN  IF r.err # Nil THEN FALSE ELSE r.match
      [] OTHER -> FALSE

\* The early return of generateCombinationsIterative.
EarlyReturn(charset, len) == Len(charset) = 0 \/ len <= 0

\* Number of loop iterations for a configuration whose total is at most
\* MaxEnum: none when total wrapped to a value <= 0.
LoopCount(p, len) ==
    LET t == TotalOf(Len(CharsetOf(p)), len)
    IN  IF EarlyReturn(CharsetOf(p), len) \/ IntNegative(t) THEN 0 ELSE t[1]

\* The candidates a configuration emits when no match runs out of time, as
\* the set of the counters that match.
MatchingCounters(p, len, sfx, regex, mode) ==
    { c \in 0..(LoopCount(p, len) - 1) :
        LET current == CounterToString(CharsetOf(p), c, len)
        IN  MatchOf(regex, mode, current, current \o sfx, FALSE) }

\* The configurations whose enumeration the model can exhaust.
Enumerable(p, len) ==
    \/ ~ValidPattern(p)
    \/ EarlyReturn(CharsetOf(p), len)
    \/ IntAtMost(TotalOf(Len(CharsetOf(p)), len), MaxEnum)

VARIABLES
    genPc,             \* "run", "closed" (goroutine ended), "exit" (os.Exit)
    counter,           \* loop variable of generateCombinationsIterative
    domainChan,        \* buffered channel returned by GenerateDomains
    domainChanClosed,
    emitted,           \* history: every candidate sent on domainChan, in order
    timedOut           \* history: the candidates whose match ran out of time

genVars == <<genPc, counter, domainChan, domainChanClosed, emitted, timedOut>>

domainChanCap == 1000

VARIABLES
    exited             \* os.Exit(1) was called: every goroutine is gone

charset == CharsetOf(pattern)

\* TotalOf for every configuration of the model, computed once.
TotalTable ==
    [p \in Patterns |-> [len \in 0..MaxLen |-> TotalOf(Len(CharsetOf(p)), len)]]

total == TotalTable[pattern][length]

\* The loop condition counter < total.
LoopRuns == ~EarlyReturn(charset, length) /\ IntLess(counter, total)

\* ------------------------------------------------------ pipeline state

VARIABLES
    fwdPc,             \* forwarder goroutine (main.go 184-193)
    fwdItem,           \* the domain it holds between receive and send
    domainCount,
    totalGenerated,
    jobs,              \* buffered channel of candidates
    jobsClosed

fwdVars == <<fwdPc, fwdItem, domainCount, totalGenerated>>

VARIABLES
    wPc,               \* per worker: "recv", "check", "send", "sleep", "exit"
    wDomain,           \* per worker: domainName
    wResult,           \* per worker: the DomainResult it built
    results,           \* buffered channel of DomainResult
    resultsClosed,
    received,          \* history: bag of the candidates received from jobs
    produced,          \* history: bag of the domains of the Results sent
    foundAvailable     \* history: the candidates CheckDomainAvailability returned true for

wrkVars == <<wPc, wDomain, wResult, foundAvailable>>

VARIABLES
    aggPc,             \* aggregator goroutine (main.go 209-234)
    aggItem,           \* the Result it holds
    processedCount,
    totalProcessed,
    availableDomains,
    registeredDomains,
    statusChan,        \* buffered channel of status messages
    statusChanClosed,
    wgDone             \* wg.Done() was called

aggVars == <<aggPc, aggItem, processedCount, totalProcessed,
             availableDomains, registeredDomains, wgDone>>

VARIABLES
    monPc,             \* completion monitor (main.go 237-251)
    prPc,              \* status printer (main.go 199-203)
    mainPc,            \* main: "start" (in GenerateDomains), "wait" (wg.Wait), "done"
    specialStatusDomains  \* the checker's special-status list

VARIABLES
    cls,               \* one call of CheckDomainAvailability, step by step
    guard,             \* one call of validateRegexComplexity
    adders,            \* concurrent calls of addToSpecialStatus, step by step
    specialStatusMutex,  \* 0 when unlocked, else the caller that holds it
    called,            \* history: bag of the records of the calls made
    clears,            \* history: the calls of ClearSpecialStatusDomains
    statusCalls,       \* history: the calls of checkSpecialStatus and their returns
    variantCalls       \* history: the calls of the CheckDomainAvailability variants

listVars == <<adders, specialStatusMutex, called, clears>>

clsVars == <<cls, guard, listVars, statusCalls, variantCalls>>

jobsCap == 1000

resultsCap == 1000

statusChanCap == 1000

Workers == 1..workers

\* Every goroutine runs from the moment main has started it until the
\* process ends: os.Exit, or main returning.
Running == ~exited /\ mainPc \notin {"start", "done"}

\* ------------------------------------- GenerateDomains, called by main

\* Whether GenerateDomains gets past its checks of the filter.
FilterError ==
    IF regexFilter = "" THEN Nil
    ELSE IF validateRegexComplexity(FilterChars(regexFilter)) # Nil
    THEN validateRegexComplexity(FilterChars(regexFilter))
    ELSE Compile(regexFilter)

\* validateRegexComplexity rejects the filter: os.Exit(1), before the
\* channel exists and before main has started anything.
GenRejectFilter ==
    /\ ~exited
    /\ mainPc = "start"
    /\ regexFilter # ""
    /\ validateRegexComplexity(FilterChars(regexFilter)) # Nil
    /\ exited' = TRUE
    /\ UNCHANGED mainPc
    /\ UNCHANGED <<cfgVars, genVars, fwdVars, jobs, jobsClosed, wrkVars,
                   results, resultsClosed, received, produced, aggVars,
                   statusChan, statusChanClosed, monPc, prPc,
                   specialStatusDomains, clsVars>>

\* regexp2.Compile fails on a filter the guard let through: os.Exit(1).
GenInvalidRegex ==
    /\ ~exited
    /\ mainPc = "start"
    /\ regexFilter # ""
    /\ validateRegexComplexity(FilterChars(regexFilter)) = Nil
    /\ Compile(regexFilter) # Nil
    /\ exited' = TRUE
    /\ UNCHANGED mainPc
    /\ UNCHANGED <<cfgVars, genVars, fwdVars, jobs, jobsClosed, wrkVars,
                   results, resultsClosed, received, produced, aggVars,
                   statusChan, statusChanClosed, monPc, prPc,
                   specialStatusDomains, clsVars>>

\* GenerateDomains starts the generator goroutine and returns the channel;
\* main starts the workers, the forwarder, the printer, the aggregator and
\* the monitor and waits in wg.Wait().
MainStart ==
    /\ ~exited
    /\ mainPc = "start"
    /\ FilterError = Nil
    /\ mainPc' = "wait"
    /\ UNCHANGED exited
    /\ UNCHANGED <<cfgVars, genVars, fwdVars, jobs, jobsClosed, wrkVars,
                   results, resultsClosed, received, produced, aggVars,
                   statusChan, statusChanClosed, monPc, prPc,
                   specialStatusDomains, clsVars>>

\* ------------------------------------------------ generator (goroutine)

\* Whether the match of the next iteration, on input, may run out of time.
TimeoutChoices(input) ==
    IF MayTimeOut(regexFilter, input) /\ Cardinality(timedOut) < MaxTimeouts
    THEN BOOLEAN
    ELSE {FALSE}

\* One iteration of the loop of generateCombinationsIterative: build the
\* candidate from the counter, match it, send it when it matches.
GenStep ==
    /\ Running
    /\ genPc = "run"
    /\ ValidPattern(pattern)
    /\ LoopRuns
    /\ LET current == CounterToString(charset, counter, length)
           domain  == current \o suffix
           input   == IF regexMode = "full" THEN domain ELSE current
       IN  \E timeout \in TimeoutChoices(input) :
             /\ IF MatchOf(regexFilter, regexMode, current, domain, timeout)
                THEN /\ Len(domainChan) < domainChanCap
                     /\ domainChan' = Append(domainChan, domain)
                     /\ emitted' = Append(emitted, domain)
                ELSE UNCHANGED <<domainChan, emitted>>
             /\ timedOut' = IF timeout THEN timedOut \cup {domain} ELSE timedOut
    /\ counter' = counter + 1
    /\ UNCHANGED <<genPc, domainChanClosed, exited>>
    /\ UNCHANGED <<cfgVars, fwdVars, jobs, jobsClosed, wrkVars, results, resultsClosed,
                   received, produced, aggVars, statusChan, statusChanClosed,
                   monPc, prPc, mainPc, specialStatusDomains, clsVars>>

\* A generator goroutine that closes its channel before the loop is over.
GenClose_Early ==
    /\ Running
    /\ genPc = "run"
    /\ ValidPattern(pattern)
    /\ domainChanClosed' = TRUE
    /\ genPc' = "closed"
    /\ UNCHANGED <<counter, domainChan, emitted, timedOut, exited>>
    /\ UNCHANGED <<cfgVars, fwdVars, jobs, jobsClosed, wrkVars, results, resultsClosed,
                   received, produced, aggVars, statusChan, statusChanClosed,
                   monPc, prPc, mainPc, specialStatusDomains, clsVars>>

\* The loop (or the early return) is over: the deferred close(domainChan).
GenClose ==
    /\ Running
    /\ genPc = "run"
    /\ ValidPattern(pattern)
    /\ ~LoopRuns
    /\ domainChanClosed' = TRUE
    /\ genPc' = "closed"
    /\ UNCHANGED <<counter, domainChan, emitted, timedOut, exited>>
    /\ UNCHANGED <<cfgVars, fwdVars, jobs, jobsClosed, wrkVars, results, resultsClosed,
                   received, produced, aggVars, statusChan, statusChanClosed,
                   monPc, prPc, mainPc, specialStatusDomains, clsVars>>

\* default: of the switch on pattern: os.Exit(1).
GenInvalidPattern ==
    /\ Running
    /\ genPc = "run"
    /\ ~ValidPattern(pattern)
    /\ genPc' = "exit"
    /\ exited' = TRUE
    /\ UNCHANGED <<counter, domainChan, domainChanClosed, emitted, timedOut>>
    /\ UNCHANGED <<cfgVars, fwdVars, jobs, jobsClosed, wrkVars, results, resultsClosed,
                   received, produced, aggVars, statusChan, statusChanClosed,
                   monPc, prPc, mainPc, specialStatusDomains, clsVars>>

\* ---------------------------------------------- classifier: strings

\* registeredIndicators (package variable)
registeredIndicators == <<
    <<"r","e","g","i","s","t","r","a","r",":">>,  \* registrar:
    <<"r","e","g","i","s","t","r","a","n","t",":">>,  \* registrant:
    <<"c","r","e","a","t","i","o","n"," ","d","a","t","e",":">>,  \* creation date:
    <<"c","r","e","a","t","e","d",":">>,  \* created:
    <<"u","p","d","a","t","e","d"," ","d","a","t","e",":">>,  \* updated date:
    <<"u","p","d","a","t","e","d",":">>,  \* updated:
    <<"e","x","p","i","r","a","t","i","o","n"," ","d","a","t","e",":">>,  \* expiration date:
    <<"e","x","p","i","r","e","s",":">>,  \* expires:
    <<"n","a","m","e"," ","s","e","r","v","e","r",":">>,  \* name server:
    <<"n","s","e","r","v","e","r",":">>,  \* nserver:
    <<"n","a","m","e","s","e","r","v","e","r",":">>,  \* nameserver:
    <<"s","t","a","t","u","s",":"," ","a","c","t","i","v","e">>,  \* status: active
    <<"s","t","a","t","u","s",":"," ","c","l","i","e","n","t">>,  \* status: client
    <<"s","t","a","t","u","s",":"," ","o","k">>,  \* status: ok
    <<"s","t","a","t","u","s",":"," ","l","o","c","k","e","d">>,  \* status: locked
    <<"s","t","a","t","u","s",":"," ","c","o","n","n","e","c","t">>,  \* status: connect
    <<"s","t","a","t","u","s",":","c","o","n","n","e","c","t">>,  \* status:connect
    <<"d","o","m","a","i","n"," ","n","a","m","e",":">>,  \* domain name:
    <<"d","o","m","a","i","n",":">>,  \* domain:
    <<"n","s","e","n","t","r","y",":">>,  \* nsentry:
    <<"c","h","a","n","g","e","d",":">>  \* changed:
    >>

\* reservedIndicators (package variable)
reservedIndicators == <<
    <<"s","t","a","t","u","s",":"," ","r","e","s","e","r","v","e","d">>,  \* status: reserved
    <<"s","t","a","t","u","s",":"," ","r","e","s","t","r","i","c","t","e","d">>,  \* status: restricted
    <<"s","t","a","t","u","s",":"," ","b","l","o","c","k","e","d">>,  \* status: blocked
    <<"s","t","a","t","u","s",":"," ","p","r","o","h","i","b","i","t","e","d">>,  \* status: prohibited
    <<"s","t","a","t","u","s",":"," ","r","e","s","e","r","v","e","d"," ","f","o","r"," ","r","e","g","i","s","t","r","y">>,  \* status: reserved for registry
    <<"s","t","a","t","u","s",":"," ","r","e","s","e","r","v","e","d"," ","f","o","r"," ","r","e","g","i","s","t","r","a","r">>,  \* status: reserved for registrar
    <<"s","t","a","t","u","s",":"," ","r","e","s","e","r","v","e","d"," ","f","o","r"," ","r","e","g","i","s","t","r","y"," ","o","p","e","r","a","t","o","r">>,  \* status: reserved for registry operator
    <<"s","t","a","t","u","s",":"," ","r","e","s","e","r","v","e","d"," ","f","o","r"," ","f","u","t","u","r","e"," ","u","s","e">>,  \* status: reserved for future use
    <<"s","t","a","t","u","s",":"," ","n","o","t"," ","a","v","a","i","l","a","b","l","e"," ","f","o","r"," ","r","e","g","i","s","t","r","a","t","i","o","n">>,  \* status: not available for registration
    <<"s","t","a","t","u","s",":"," ","n","o","t"," ","a","v","a","i","l","a","b","l","e"," ","f","o","r"," ","g","e","n","e","r","a","l"," ","r","e","g","i","s","t","r","a","t","i","o","n">>,  \* status: not available for general registration
    <<"s","t","a","t","u","s",":"," ","r","e","s","e","r","v","e","d"," ","f","o","r"," ","s","p","e","c","i","a","l"," ","p","u","r","p","o","s","e","s">>,  \* status: reserved for special purposes
    <<"s","t","a","t","u","s",":"," ","r","e","s","e","r","v","e","d"," ","f","o","r"," ","g","o","v","e","r","n","m","e","n","t"," ","u","s","e">>,  \* status: reserved for government use
    <<"s","t","a","t","u","s",":"," ","r","e","s","e","r","v","e","d"," ","f","o","r"," ","e","d","u","c","a","t","i","o","n","a","l"," ","i","n","s","t","i","t","u","t","i","o","n","s">>,  \* status: reserved for educational institutions
    <<"s","t","a","t","u","s",":"," ","r","e","s","e","r","v","e","d"," ","f","o","r"," ","n","o","n","-","p","r","o","f","i","t"," ","o","r","g","a","n","i","z","a","t","i","o","n","s">>,  \* status: reserved for non-profit organizations
    <<"d","o","m","a","i","n"," ","r","e","s","e","r","v","e","d">>,  \* domain reserved
    <<"t","h","i","s"," ","d","o","m","a","i","n"," ","i","s"," ","r","e","s","e","r","v","e","d">>,  \* this domain is reserved
    <<"r","e","s","e","r","v","e","d"," ","d","o","m","a","i","n">>  \* reserved domain
    >>

\* availableIndicators (package variable)
availableIndicators == <<
    <<"n","o"," ","m","a","t","c","h"," ","f","o","r">>,  \* no match for
    <<"n","o","t"," ","f","o","u","n","d">>,  \* not found
    <<"n","o"," ","d","a","t","a"," ","f","o","u","n","d">>,  \* no data found
    <<"n","o"," ","e","n","t","r","i","e","s"," ","f","o","u","n","d">>,  \* no entries found
    <<"d","o","m","a","i","n"," ","n","o","t"," ","f","o","u","n","d">>,  \* domain not found
    <<"n","o"," ","o","b","j","e","c","t"," ","f","o","u","n","d">>,  \* no object found
    <<"n","o"," ","m","a","t","c","h","i","n","g"," ","r","e","c","o","r","d">>,  \* no matching record
    <<"s","t","a","t","u","s",":"," ","f","r","e","e">>,  \* status: free
    <<"s","t","a","t","u","s",":"," ","a","v","a","i","l","a","b","l","e">>,  \* status: available
    <<"a","v","a","i","l","a","b","l","e"," ","f","o","r"," ","r","e","g","i","s","t","r","a","t","i","o","n">>,  \* available for registration
    <<"t","h","i","s"," ","d","o","m","a","i","n"," ","i","s"," ","a","v","a","i","l","a","b","l","e">>,  \* this domain is available
    <<"d","o","m","a","i","n"," ","i","s"," ","a","v","a","i","l","a","b","l","e">>,  \* domain is available
    <<"d","o","m","a","i","n"," ","a","v","a","i","l","a","b","l","e">>  \* domain available
    >>

\* enhancedRegisteredIndicators of CheckDomainAvailability
enhancedRegisteredIndicators == <<
    <<"r","e","g","i","s","t","r","a","r",":">>,  \* registrar:
    <<"r","e","g","i","s","t","r","a","n","t",":">>,  \* registrant:
    <<"c","r","e","a","t","i","o","n"," ","d","a","t","e",":">>,  \* creation date:
    <<"c","r","e","a","t","e","d",":">>,  \* created:
    <<"u","p","d","a","t","e","d"," ","d","a","t","e",":">>,  \* updated date:
    <<"u","p","d","a","t","e","d",":">>,  \* updated:
    <<"e","x","p","i","r","a","t","i","o","n"," ","d","a","t","e",":">>,  \* expiration date:
    <<"e","x","p","i","r","e","s",":">>,  \* expires:
    <<"n","a","m","e"," ","s","e","r","v","e","r",":">>,  \* name server:
    <<"n","s","e","r","v","e","r",":">>,  \* nserver:
    <<"n","a","m","e","s","e","r","v","e","r",":">>,  \* nameserver:
    <<"s","t","a","t","u","s",":"," ","a","c","t","i","v","e">>,  \* status: active
    <<"s","t","a","t","u","s",":"," ","c","l","i","e","n","t">>,  \* status: client
    <<"s","t","a","t","u","s",":"," ","o","k">>,  \* status: ok
    <<"s","t","a","t","u","s",":"," ","l","o","c","k","e","d">>,  \* status: locked
    <<"s","t","a","t","u","s",":"," ","c","o","n","n","e","c","t">>,  \* status: connect
    <<"s","t","a","t","u","s",":","c","o","n","n","e","c","t">>,  \* status:connect
    <<"d","o","m","a","i","n"," ","n","a","m","e",":">>,  \* domain name:
    <<"d","o","m","a","i","n",":">>,  \* domain:
    <<"S","t","a","t","u","s",":"," ","c","o","n","n","e","c","t">>,  \* Status: connect
    <<"n","s","e","n","t","r","y",":">>,  \* nsentry:
    <<"c","h","a","n","g","e","d",":">>  \* changed:
    >>

\* specialStatusIndicators of CheckDomainAvailability
specialStatusIndicators == <<
    <<"s","t","a","t","u","s",":"," ","r","e","d","e","m","p","t","i","o","n","p","e","r","i","o","d">>,  \* status: redemptionperiod
    <<"s","t","a","t","u","s",":"," ","r","e","d","e","m","p","t","i","o","n"," ","p","e","r","i","o","d">>,  \* status: redemption period
    <<"s","t","a","t","u","s",":"," ","r","e","d","e","m","p","t","i","o","n">>,  \* status: redemption
    <<"r","e","d","e","m","p","t","i","o","n","p","e","r","i","o","d">>,  \* redemptionperiod
    <<"r","e","d","e","m","p","t","i","o","n"," ","p","e","r","i","o","d">>,  \* redemption period
    <<"s","t","a","t","u","s",":"," ","p","e","n","d","i","n","g","d","e","l","e","t","e">>,  \* status: pendingdelete
    <<"s","t","a","t","u","s",":"," ","p","e","n","d","i","n","g"," ","d","e","l","e","t","e">>,  \* status: pending delete
    <<"s","t","a","t","u","s",":"," ","h","o","l","d">>,  \* status: hold
    <<"s","t","a","t","u","s",":"," ","i","n","a","c","t","i","v","e">>,  \* status: inactive
    <<"s","t","a","t","u","s",":"," ","s","u","s","p","e","n","d","e","d">>,  \* status: suspended
    <<"s","t","a","t","u","s",":"," ","r","e","s","e","r","v","e","d">>,  \* status: reserved
    <<"s","t","a","t","u","s",":"," ","q","u","a","r","a","n","t","i","n","e","d">>,  \* status: quarantined
    <<"s","t","a","t","u","s",":"," ","p","e","n","d","i","n","g">>,  \* status: pending
    <<"s","t","a","t","u","s",":"," ","t","r","a","n","s","f","e","r">>,  \* status: transfer
    <<"s","t","a","t","u","s",":"," ","g","r","a","c","e">>,  \* status: grace
    <<"s","t","a","t","u","s",":"," ","a","u","t","o","r","e","n","e","w","p","e","r","i","o","d">>,  \* status: autorenewperiod
    <<"s","t","a","t","u","s",":"," ","a","u","t","o"," ","r","e","n","e","w"," ","p","e","r","i","o","d">>,  \* status: auto renew period
    <<"s","t","a","t","u","s",":"," ","e","x","p","i","r","e">>,  \* status: expire
    <<"s","t","a","t","u","s",":"," ","e","x","p","i","r","e","d">>,  \* status: expired
    <<"s","t","a","t","u","s",":"," ","c","l","i","e","n","t","h","o","l","d">>,  \* status: clienthold
    <<"s","t","a","t","u","s",":"," ","c","l","i","e","n","t"," ","h","o","l","d">>,  \* status: client hold
    <<"s","t","a","t","u","s",":"," ","s","e","r","v","e","r","h","o","l","d">>,  \* status: serverhold
    <<"s","t","a","t","u","s",":"," ","s","e","r","v","e","r"," ","h","o","l","d">>  \* status: server hold
    >>

\* The phrases CheckDomainSignatures looks for in err.Error()
sigRateLimitPhrases == <<
    <<"c","o","n","n","e","c","t","i","o","n"," ","r","e","f","u","s","e","d">>,  \* connection refused
    <<"a","c","c","e","s","s"," ","c","o","n","t","r","o","l">>,  \* access control
    <<"l","i","m","i","t"," ","e","x","c","e","e","d","e","d">>,  \* limit exceeded
    <<"r","a","t","e"," ","l","i","m","i","t">>  \* rate limit
    >>

\* The phrases CheckDomainAvailability looks for in the lower-cased response
\* and in the lower-cased err.Error()
finalRateLimitPhrases == <<
    <<"c","o","n","n","e","c","t","i","o","n"," ","r","e","f","u","s","e","d">>,  \* connection refused
    <<"a","c","c","e","s","s"," ","c","o","n","t","r","o","l">>,  \* access control
    <<"l","i","m","i","t"," ","e","x","c","e","e","d","e","d">>,  \* limit exceeded
    <<"r","a","t","e"," ","l","i","m","i","t">>,  \* rate limit
    <<"t","o","o"," ","m","a","n","y"," ","r","e","q","u","e","s","t","s">>  \* too many requests
    >>


\* The WHOIS answers of the model (whois.Whois returning err == nil).
T_empty == <<>>  \* an empty answer

T_noMatch == <<"N","o"," ","m","a","t","c","h"," ","f","o","r"," ","A","B",".","L","I">>  \* an Available indicator

T_registrar == <<"R","e","g","i","s","t","r","a","r",":"," ","X">>  \* a Registered indicator

T_redemption == <<"S","t","a","t","u","s",":"," ","R","E","D","E","M","P","T","I","O","N","P","E","R","I","O","D">>  \* a special status alone

T_registrarRedemption == <<"R","e","g","i","s","t","r","a","r",":"," ","X"," ","S","t","a","t","u","s",":"," ","R","E","D","E","M","P","T","I","O","N","P","E","R","I","O","D">>  \* a registered domain in redemption

T_reserved == <<"S","t","a","t","u","s",":"," ","R","e","s","e","r","v","e","d">>  \* a Reserved (and special-status) indicator

T_allKinds == <<"N","O","T"," ","F","O","U","N","D"," ","R","e","g","i","s","t","r","a","r",":"," ","S","t","a","t","u","s",":"," ","r","e","s","e","r","v","e","d"," ","S","t","a","t","u","s",":"," ","h","o","l","d">>  \* Available, Registered, Reserved and special status at once

T_rateLimit == <<"R","a","t","e"," ","l","i","m","i","t"," ","e","x","c","e","e","d","e","d">>  \* a rate-limit answer

T_notFoundRateLimit == <<"n","o","t"," ","f","o","u","n","d",";"," ","r","a","t","e"," ","l","i","m","i","t">>  \* an Available indicator and a rate-limit phrase

T_silent == <<"h","e","l","l","o">>  \* no indicator at all

T_redemptionRateLimit == <<"S","t","a","t","u","s",":"," ","R","E","D","E","M","P","T","I","O","N","P","E","R","I","O","D",";"," ","r","a","t","e"," ","l","i","m","i","t">>  \* a special status and a rate-limit phrase

T_redemptionNoMatch == <<"N","o"," ","m","a","t","c","h",";"," ","S","t","a","t","u","s",":"," ","R","E","D","E","M","P","T","I","O","N","P","E","R","I","O","D">>  \* an Available indicator and a special status

T_redemptionReserved == <<"S","t","a","t","u","s",":"," ","R","E","D","E","M","P","T","I","O","N","P","E","R","I","O","D"," ","S","t","a","t","u","s",":"," ","R","e","s","e","r","v","e","d">>  \* a special status and a Reserved indicator

T_clientHold == <<"S","t","a","t","u","s",":"," ","c","l","i","e","n","t","H","o","l","d">>  \* client-hold, written as one word

T_clientHoldSpaced == <<"S","t","a","t","u","s",":"," ","c","l","i","e","n","t"," ","h","o","l","d">>  \* client-hold, written as two words

T_serverHold == <<"S","t","a","t","u","s",":"," ","s","e","r","v","e","r","H","o","l","d">>  \* server-hold

T_expired == <<"S","t","a","t","u","s",":"," ","e","x","p","i","r","e","d">>  \* expired

WhoisTexts == { T_clientHold, T_clientHoldSpaced, T_serverHold, T_expired, T_redemptionReserved, T_redemptionRateLimit, T_redemptionNoMatch, T_empty, T_noMatch, T_registrar, T_redemption, T_registrarRedemption, T_reserved, T_allKinds, T_rateLimit, T_notFoundRateLimit, T_silent }

\* The WHOIS transport errors of the model (err.Error()).
E_refused == <<"c","o","n","n","e","c","t","i","o","n"," ","r","e","f","u","s","e","d">>  \* a rate-limit error for both loops

E_timeout == <<"i","/","o"," ","t","i","m","e","o","u","t">>  \* another transport error

WhoisErrors == { E_refused, E_timeout }

\* err == nil, among error texts.
NoError == <<>>

\* What one call of whois.Whois returns: (result, err).
WhoisOutcomes ==
    { [err |-> NoError, result |-> t] : t \in WhoisTexts }
      \cup { [err |-> e, result |-> <<>>] : e \in WhoisErrors }

StatusPrefix == <<"s","t","a","t","u","s",":"," ">>

WHOIS_RATE_LIMITED == <<"W","H","O","I","S","_","R","A","T","E","_","L","I","M","I","T","E","D">>

REDEMPTIONPERIOD == <<"R","E","D","E","M","P","T","I","O","N","P","E","R","I","O","D">>

ReasonPrefix == <<"W","H","O","I","S"," ","s","t","a","t","u","s",":"," ">>

CheckedDomain == <<"a","b",".","l","i">>

OtherDomain == <<"z","z",".","l","i">>

OtherCname == <<"c","d","n",".","e","x","a","m","p","l","e",".">>

\* --------------------------------------------- classifier: decisions

\* The first element of the list that is a substring of s (the element at
\* which a `for _, indicator := range list` loop returns).
FirstContained(s, list) ==
    list[CHOOSE k \in 1..Len(list) :
            /\ Contains(s, list[k])
            /\ \A j \in 1..(k - 1) : ~Contains(s, list[j])]

\* The rate-limit test of CheckDomainSignatures on err.Error() (not
\* lower-cased, four phrases).
SigIsRateLimitError(errText) == ContainsAny(errText, sigRateLimitPhrases)

\* isRateLimitResponse / isRateLimit of CheckDomainAvailability, on the
\* lower-cased response or error text (five phrases).
FinalIsRateLimit(lowered) == ContainsAny(lowered, finalRateLimitPhrases)

\* The same without the precedence of the Available indicators.
WhoisSignatures_NoPrecedence(whoisResult) ==
    IF whoisResult = <<>>
    THEN <<>>
    ELSE LET result == ToLower(whoisResult)
         IN  (IF ContainsAny(result, registeredIndicators) THEN <<"WHOIS">> ELSE <<>>)
               \o (IF ContainsAny(result, reservedIndicators) THEN <<"RESERVED">> ELSE <<>>)

\* The signatures the WHOIS part of CheckDomainSignatures adds for
\* whoisResult.
WhoisSignatures(whoisResult) ==
    IF whoisResult = <<>>
    THEN <<>>
    ELSE LET result == ToLower(whoisResult)
             isAvailable == ContainsAny(result, availableIndicators)
         IN  IF isAvailable
             THEN <<>>
             ELSE (IF ContainsAny(result, registeredIndicators) THEN <<"WHOIS">> ELSE <<>>)
                    \o (IF ContainsAny(result, reservedIndicators) THEN <<"RESERVED">> ELSE <<>>)

\* The same with the indicator itself as status type.
FinalResponse_NoTrim(response) ==
    LET result == ToLower(response)
    IN  IF FinalIsRateLimit(result)
        THEN [kind |-> "ratelimit", status |-> <<>>]
        ELSE IF ContainsAny(result, availableIndicators)
        THEN [kind |-> "available", status |-> <<>>]
        ELSE IF ContainsAny(result, enhancedRegisteredIndicators)
        THEN [kind |-> "registered", status |-> <<>>]
        ELSE IF ContainsAny(result, specialStatusIndicators)
        THEN LET indicator  == FirstContained(result, specialStatusIndicators)
                 statusType == indicator
             IN  [kind |-> "special", status |-> ToUpper(statusType)]
        ELSE [kind |-> "silent", status |-> <<>>]

\* What the final-verification loop of CheckDomainAvailability does with a
\* response it got with err == nil:
\*   "ratelimit"  a rate-limit phrase: retry, or the fallback on the last attempt
\*   "available"  return true
\*   "registered" return false
\*   "special"    addToSpecialStatus(domain, status); return false
\*   "silent"     break: no indicator
FinalResponse(response) ==
    LET result == ToLower(response)
    IN  IF FinalIsRateLimit(result)
        THEN [kind |-> "ratelimit", status |-> <<>>]
        ELSE IF ContainsAny(result, availableIndicators)
        THEN [kind |-> "available", status |-> <<>>]
        ELSE IF ContainsAny(result, enhancedRegisteredIndicators)
        THEN [kind |-> "registered", status |-> <<>>]
        ELSE IF ContainsAny(result, specialStatusIndicators)
        THEN LET indicator  == FirstContained(result, specialStatusIndicators)
                 statusType == TrimPrefix(indicator, StatusPrefix)
             IN  [kind |-> "special", status |-> ToUpper(statusType)]
        ELSE [kind |-> "silent", status |-> <<>>]

\* The decisions above for the answers and errors of the model, computed once.
WhoisSignaturesOf == [t \in WhoisTexts |-> WhoisSignatures(t)]

FinalResponseOf == [t \in WhoisTexts |-> FinalResponse(t)]

SigRateLimitErrorOf == [e \in WhoisErrors |-> SigIsRateLimitError(e)]

FinalRateLimitErrorOf == [e \in WhoisErrors |-> FinalIsRateLimit(ToLower(e))]

\* checkDNSRecords: one signature per lookup that succeeded with records; for
\* CNAME, with a target that is not the name itself.
LookupAnswers == {"error", "empty", "records"}

CnameAnswers(domain) ==
    { [err |-> "no such host", target |-> <<>>],
      [err |-> Nil, target |-> <<>>],
      [err |-> Nil, target |-> domain \o <<".">>],
      [err |-> Nil, target |-> OtherCname] }

\* The lookups with a CNAME test that accepts the name itself as target.
checkDNSRecords_CnameToItself(domain, ns, ip, mx, txt, cname) ==
    (IF ns = "records" THEN <<"DNS_NS">> ELSE <<>>)
      \o (IF ip = "records" THEN <<"DNS_A">> ELSE <<>>)
      \o (IF mx = "records" THEN <<"DNS_MX">> ELSE <<>>)
      \o (IF txt = "records" THEN <<"DNS_TXT">> ELSE <<>>)
      \o (IF cname.err = Nil /\ cname.target # <<>>
          THEN <<"DNS_CNAME">> ELSE <<>>)

checkDNSRecords(domain, ns, ip, mx, txt, cname) ==
    (IF ns = "records" THEN <<"DNS_NS">> ELSE <<>>)
      \o (IF ip = "records" THEN <<"DNS_A">> ELSE <<>>)
      \o (IF mx = "records" THEN <<"DNS_MX">> ELSE <<>>)
      \o (IF txt = "records" THEN <<"DNS_TXT">> ELSE <<>>)
      \o (IF cname.err = Nil /\ cname.target # <<>> /\ cname.target # domain \o <<".">>
          THEN <<"DNS_CNAME">> ELSE <<>>)

\* tls.DialWithDialer: an error, a connection without peer certificate, a
\* connection with one.
TlsAnswers == {"error", "nocert", "cert"}

\* A dial whose every answer counts as a certificate.
TlsSignature_AnyAnswer(t) == <<"SSL">>

\* What the TLS probe appends: "SSL" when the dial succeeded and the peer
\* sent a certificate.
TlsSignature(t) == IF t = "cert" THEN <<"SSL">> ELSE <<>>

\* The switches of globalConfig.Scanner.Methods.
Methods == [DNSCheck : BOOLEAN, WHOISCheck : BOOLEAN, SSLCheck : BOOLEAN]

\* globalConfig == nil: SetConfig has not been called.
NilConfig == [nil |-> TRUE]

DNSEnabled == IF globalConfig = NilConfig THEN TRUE ELSE globalConfig.DNSCheck

WHOISEnabled == IF globalConfig = NilConfig THEN TRUE ELSE globalConfig.WHOISCheck

SSLEnabled == IF globalConfig = NilConfig THEN TRUE ELSE globalConfig.SSLCheck

\* ------------------------------- classifier: CheckDomainAvailability

\* types.SpecialStatusDomain
SpecialStatusDomain(domain, reason) ==
    [Domain |-> domain, Status |-> reason, Reason |-> ReasonPrefix \o reason]

sigMaxRetries == 3

finalMaxRetries == 5

\* baseDelay of the two loops, in seconds.
sigBaseDelay == 2

finalBaseDelay == 2

\* 1 << uint(n)
Shl1(n) == 2 ^ n

\* A loop that sleeps after every rate-limit error.
SigSleepsAfter_Always(i) == TRUE

\* if i < maxRetries-1: the longer wait after a rate-limit error is skipped
\* on the last pass of the signature loop.
SigSleepsAfter(i) == i < sigMaxRetries - 1

\* One time.Sleep of a retry loop: its length in seconds, and the number of
\* queries the loop had made when it was slept.
Sleep(after, seconds) == [after |-> after, seconds |-> seconds]

\* The frame of CheckDomainSignatures before its first probe.
NoProbes == [ran |-> <<>>, dns |-> <<>>, tls |-> <<>>, err |-> Nil]

\* The locals of one call CheckDomainAvailability(domain) when it starts, and
\* what the call has seen so far (history, for the claims):
\*   sigText    the answer the WHOIS part of CheckDomainSignatures classified
\*   finalText  the last answer the final-verification loop got
\*              (each empty, or one answer)
\*   failed     some WHOIS query returned an error
\*   attempts   the final-verification queries made
\*   limited    those of them that were rate-limited
\*   answered   some WHOIS query returned an answer without rate-limit phrase
\*   fallback   handleRateLimitedDomain was called
\*   seen       every answer a WHOIS query returned
\*   sigQueries the queries the loop of CheckDomainSignatures made
\*   probes     the frame of CheckDomainSignatures, gone when the caller has
\*              taken its return values: the probes run, in order, what the
\*              DNS lookups and the TLS dial answered, the error returned
\*   err        the error CheckDomainAvailability returns
\*   sigSleeps, finalSleeps  the sleeps of the two loops, in order
\*   before     the special-status list when the call started
ClsStart(domain, list) ==
    [pc |-> "dns", domain |-> domain, signatures |-> <<>>, i |-> 0, before |-> list,
     hasDNSSignatures |-> FALSE, available |-> FALSE,
     sigText |-> <<>>, finalText |-> <<>>, attempts |-> 0, limited |-> 0,
     answered |-> FALSE, fallback |-> FALSE, failed |-> FALSE,
     seen |-> {}, sigQueries |-> 0, sigSleeps |-> <<>>, finalSleeps |-> <<>>,
     probes |-> NoProbes, err |-> Nil]

\* No call is being followed.
ClsIdle == [pc |-> "idle"]

\* return available, nil
ClsReturn(c, available) == [c EXCEPT !.pc = "return", !.available = available]

\* addToSpecialStatus: append one record under the mutex.
addToSpecialStatus(list, domain, reason) ==
    Append(list, SpecialStatusDomain(domain, reason))

\* The list after handleRateLimitedDomain's `if globalConfig != nil`.
RateLimitedList(list, domain) ==
    IF globalConfig # NilConfig
    THEN addToSpecialStatus(list, domain, WHOIS_RATE_LIMITED)
    ELSE list

\* A fallback that reports the candidate as registered.
RateLimitedAvailable_Never(hasDNSSignatures) == FALSE

\* handleRateLimitedDomain's return value.
RateLimitedAvailable(hasDNSSignatures) == ~hasDNSSignatures

\* The pipeline of main.go is not running while one call is followed.
ClsFrame ==
    UNCHANGED <<cfgVars, genVars, exited, fwdVars, jobs, jobsClosed, wrkVars,
                results, resultsClosed, received, produced, aggVars,
                statusChan, statusChanClosed, monPc, prPc, mainPc, guard,
                listVars, statusCalls, variantCalls>>

\* CheckDomainSignatures, 1: checkDNSRecords, when DNS checks are enabled.
SigDns ==
    /\ cls.pc = "dns"
    /\ IF DNSEnabled
       THEN \E ns \in LookupAnswers, ip \in LookupAnswers, mx \in LookupAnswers,
               txt \in LookupAnswers, cname \in CnameAnswers(cls.domain) :
              cls' = [cls EXCEPT
                        !.signatures = @ \o checkDNSRecords(cls.domain, ns, ip, mx, txt, cname),
                        !.probes.ran = Append(@, "dns"),
                        !.probes.dns = <<[ns |-> ns, ip |-> ip, mx |-> mx, txt |-> txt,
                                          cname |-> cname]>>,
                        !.pc = "whois"]
       ELSE cls' = [cls EXCEPT !.pc = "whois"]
    /\ UNCHANGED specialStatusDomains
    /\ ClsFrame

\* CheckDomainSignatures, 2: WHOIS checks are disabled.
SigWhoisSkip ==
    /\ cls.pc = "whois"
    /\ ~WHOISEnabled
    /\ cls' = [cls EXCEPT !.pc = "ssl"]
    /\ UNCHANGED specialStatusDomains
    /\ ClsFrame

\* CheckDomainSignatures, 2: one pass of the retry loop (whois.Whois and what
\* follows it); an answer ends the loop and is classified, the third failure
\* ends it with whoisResult == "".
SigWhoisAttempt ==
    /\ cls.pc = "whois"
    /\ WHOISEnabled
    /\ cls.i < sigMaxRetries
    /\ \E o \in WhoisOutcomes :
         LET before == IF cls.i > 0
                       THEN <<Sleep(cls.sigQueries, sigBaseDelay * (cls.i + 1))>>
                       ELSE <<>>
             after  == IF /\ o.err # NoError
                          /\ SigRateLimitErrorOf[o.err]
                          /\ SigSleepsAfter(cls.i)
                       THEN <<Sleep(cls.sigQueries + 1, sigBaseDelay * ((cls.i + 1) * 3))>>
                       ELSE <<>>
             c      == [cls EXCEPT !.sigQueries = @ + 1,
                                   !.sigSleeps = @ \o before \o after,
                                   !.probes.ran = IF cls.i = 0 THEN Append(@, "whois") ELSE @]
         IN  cls' = IF o.err = NoError
                    THEN [c EXCEPT
                            !.signatures = @ \o WhoisSignaturesOf[o.result],
                            !.sigText = <<o.result>>,
                            !.seen = @ \cup {o.result},
                            !.answered = @ \/ FinalResponseOf[o.result].kind # "ratelimit",
                            !.i = 0,
                            !.pc = "ssl"]
                    ELSE IF cls.i + 1 < sigMaxRetries
                    THEN [c EXCEPT !.i = @ + 1, !.failed = TRUE]
                    ELSE [c EXCEPT !.i = 0, !.failed = TRUE, !.pc = "ssl"]
    /\ UNCHANGED specialStatusDomains
    /\ ClsFrame

\* A CheckDomainSignatures that returns the failure of its dial.
SignaturesError_FailedDial(probes) ==
    IF probes.tls = <<"error">> THEN "dial failed" ELSE Nil

\* The error of `return signatures, nil`, the one return statement of
\* CheckDomainSignatures, whatever the probes answered.
SignaturesError(probes) == Nil

\* CheckDomainSignatures, 3: the TLS dial, when SSL checks are enabled.
SigSsl ==
    /\ cls.pc = "ssl"
    /\ IF SSLEnabled
       THEN \E t \in TlsAnswers :
              LET p == [cls.probes EXCEPT !.ran = Append(@, "ssl"), !.tls = <<t>>]
              IN  cls' = [cls EXCEPT
                            !.signatures = @ \o TlsSignature(t),
                            !.probes = [p EXCEPT !.err = SignaturesError(p)],
                            !.pc = "classify"]
       ELSE cls' = [cls EXCEPT !.probes.err = SignaturesError(cls.probes),
                               !.pc = "classify"]
    /\ UNCHANGED specialStatusDomains
    /\ ClsFrame

\* `for _, sig := range signatures { if sig == "RESERVED" ... }`
HasReserved(signatures) == \E k \in 1..Len(signatures) : signatures[k] = "RESERVED"

DNSSignatureNames == {"DNS_NS", "DNS_A", "DNS_MX", "DNS_TXT", "DNS_CNAME"}

\* hasDNSSignatures after the loop over the signatures.
hasDNSSignaturesOf(signatures) ==
    \E k \in 1..Len(signatures) : signatures[k] \in DNSSignatureNames

\* The loop with the DNS branch setting hasDNSSignatures alone.
hasRegistrationSignatures_NoDNS(signatures) ==
    \E k \in 1..Len(signatures) : signatures[k] \in {"WHOIS", "SSL"}

\* The loop with the `sig == "SSL"` branch left out.
hasRegistrationSignatures_NoSSL(signatures) ==
    \E k \in 1..Len(signatures) : signatures[k] \in DNSSignatureNames \cup {"WHOIS"}

\* hasRegistrationSignatures after the loop over the signatures.
hasRegistrationSignatures(signatures) ==
    \E k \in 1..Len(signatures) : signatures[k] \in DNSSignatureNames \cup {"WHOIS", "SSL"}

\* CheckDomainAvailability after CheckDomainSignatures returned: RESERVED and
\* registration signatures end the call, otherwise the final loop starts.
Classify ==
    /\ cls.pc = "classify"
    /\ LET c == [cls EXCEPT !.probes = NoProbes]
       IN  cls' = IF cls.probes.err # Nil
                  THEN ClsReturn([c EXCEPT !.err = cls.probes.err], FALSE)
                  ELSE IF HasReserved(cls.signatures)
                  THEN ClsReturn(c, FALSE)
                  ELSE IF hasRegistrationSignatures(cls.signatures)
                  THEN ClsReturn([c EXCEPT !.hasDNSSignatures = hasDNSSignaturesOf(cls.signatures)], FALSE)
                  ELSE [c EXCEPT !.hasDNSSignatures = hasDNSSignaturesOf(cls.signatures),
                                 !.i = 0, !.pc = "final"]
    /\ UNCHANGED specialStatusDomains
    /\ ClsFrame

\* The value of the last statement, `return true, nil`, with the value FALSE.
UndeterminedAvailable_False == FALSE

\* The value of the last statement of CheckDomainAvailability, reached by the
\* `break` after an answer without indicator and by the end of the loop.
UndeterminedAvailable == TRUE

\* c after the call handleRateLimitedDomain(domain, hasDNSSignatures).
ClsFallback(c) ==
    [ClsReturn(c, RateLimitedAvailable(c.hasDNSSignatures)) EXCEPT !.fallback = TRUE]

\* The special-status list after that call.
FallbackList(c, list) ==
    IF c.hasDNSSignatures THEN list ELSE RateLimitedList(list, c.domain)

\* One pass of the final-verification loop: whois.Whois and what follows it.
FinalAttempt ==
    /\ cls.pc = "final"
    /\ cls.i < finalMaxRetries
    /\ \E o \in WhoisOutcomes :
         LET c    == [cls EXCEPT !.attempts = @ + 1]
             last == cls.i = finalMaxRetries - 1
         IN  IF o.err = NoError
             THEN LET r == FinalResponseOf[o.result]
                      s == [c EXCEPT !.seen = @ \cup {o.result}, !.finalText = <<o.result>>]
                      a == [s EXCEPT !.answered = TRUE]
                  IN  CASE r.kind = "ratelimit" /\ ~last ->
                             /\ cls' = [s EXCEPT
                                          !.limited = @ + 1, !.i = @ + 1,
                                          !.finalSleeps = Append(@,
                                             Sleep(c.attempts, finalBaseDelay * Shl1(cls.i + 1)))]
                             /\ UNCHANGED specialStatusDomains
                        [] r.kind = "ratelimit" /\ last ->
                             /\ cls' = ClsFallback([s EXCEPT !.limited = @ + 1])
                             /\ specialStatusDomains' = FallbackList(cls, specialStatusDomains)
                        [] r.kind = "available" ->
                             /\ cls' = ClsReturn(a, TRUE)
                             /\ UNCHANGED specialStatusDomains
                        [] r.kind = "registered" ->
                             /\ cls' = ClsReturn(a, FALSE)
                             /\ UNCHANGED specialStatusDomains
                        [] r.kind = "special" ->
                             /\ cls' = ClsReturn(a, FALSE)
                             /\ specialStatusDomains' =
                                  addToSpecialStatus(specialStatusDomains, cls.domain, r.status)
                        [] r.kind = "silent" ->
                             /\ cls' = ClsReturn(a, UndeterminedAvailable)
                             /\ UNCHANGED specialStatusDomains
             ELSE LET e == [c EXCEPT !.failed = TRUE]
                  IN  IF FinalRateLimitErrorOf[o.err]
                      THEN IF last
                           THEN /\ cls' = ClsFallback([e EXCEPT !.limited = @ + 1])
                                /\ specialStatusDomains' = FallbackList(cls, specialStatusDomains)
                           ELSE /\ cls' = [e EXCEPT
                                               !.limited = @ + 1, !.i = @ + 1,
                                               !.finalSleeps = Append(@,
                                                  Sleep(c.attempts, finalBaseDelay * Shl1(cls.i)))]
                                /\ UNCHANGED specialStatusDomains
                      ELSE /\ cls' = IF last
                                     THEN ClsReturn(e, UndeterminedAvailable)
                                     ELSE [e EXCEPT
                                             !.i = @ + 1,
                                             !.finalSleeps = Append(@,
                                                Sleep(c.attempts, 1 + cls.i))]
                           /\ UNCHANGED specialStatusDomains
    /\ ClsFrame

\* ----------------------------- one call of validateRegexComplexity

MaxFilterLen == 201

F_classic == <<"(","a","+",")","+">>  \* rejected by name in the spec

F_accepted == <<"^","[","a","-","z","]","{","2","}","[","0","-","9","]","$">>  \* accepted by name in the spec

\* The filters a call starts from: the two above, four more and each
\* deny-listed shape.
GuardBases ==
    { F_classic, F_accepted,
      <<>>,  \* "": the empty filter
      <<"a","+","b","*","c","+","d","*","e","+">>,  \* a+b*c+d*e+: exactly five quantifiers
      <<"a","+","b","*","c","+","d","*","e","+","f","*">>,  \* a+b*c+d*e+f*: six quantifiers
      <<"^","x","(",".","*",")","*","y","$">> }  \* ^x(.*)*y$: a deny-listed shape inside a longer filter
      \cup Range(dangerousPatterns)

\* The character a filter is lengthened with.
PadChars == {"a", "+", NonAscii}

\* No call is being followed.
GuardIdle == [pc |-> "idle"]

\* The filter being written, before the call.
GuardStart(base, pad) == [pc |-> "build", pattern |-> base, pad |-> pad, err |-> Nil]

GuardFrame ==
    UNCHANGED <<cfgVars, genVars, exited, fwdVars, jobs, jobsClosed, wrkVars,
                results, resultsClosed, received, produced, aggVars,
                statusChan, statusChanClosed, monPc, prPc, mainPc,
                specialStatusDomains, cls, listVars, statusCalls, variantCalls>>

\* The user's filter, one character longer.
GuardPad ==
    /\ guard.pc = "build"
    /\ Len(guard.pattern) < MaxFilterLen
    /\ guard' = [guard EXCEPT !.pattern = Append(@, guard.pad)]
    /\ GuardFrame

\* err := validateRegexComplexity(regexFilter)
GuardValidate ==
    /\ guard.pc = "build"
    /\ guard' = [guard EXCEPT !.err = validateRegexComplexity(guard.pattern), !.pc = "done"]
    /\ GuardFrame

\* -------------------- concurrent calls of addToSpecialStatus

Adders == 1..MaxAdders

\* No caller is inside addToSpecialStatus.
AdderIdle == [pc |-> "idle"]

ListFrame ==
    UNCHANGED <<cfgVars, genVars, exited, fwdVars, jobs, jobsClosed, wrkVars,
                results, resultsClosed, received, produced, aggVars,
                statusChan, statusChanClosed, monPc, prPc, mainPc, cls, guard,
                statusCalls, variantCalls>>

\* A goroutine calls addToSpecialStatus(domain, reason).
AddCall(a) ==
    /\ adders[a].pc = "idle"
    /\ BagCardinality(called) < MaxCalls
    /\ \E domain \in {CheckedDomain, OtherDomain},
          reason \in {WHOIS_RATE_LIMITED, REDEMPTIONPERIOD} :
         /\ adders' = [adders EXCEPT ![a] =
                         [pc |-> "lock", domain |-> domain, reason |-> reason,
                          read |-> <<>>]]
         /\ called' = called (+) SetToBag({SpecialStatusDomain(domain, reason)})
    /\ UNCHANGED <<specialStatusDomains, specialStatusMutex, clears>>
    /\ ListFrame

\* A caller that takes no lock.
AddLock_NoLock(a) ==
    /\ adders[a].pc = "lock"
    /\ specialStatusMutex' = a
    /\ adders' = [adders EXCEPT ![a].pc = "read"]
    /\ UNCHANGED <<specialStatusDomains, called, clears>>
    /\ ListFrame

\* specialStatusMutex.Lock(): blocks while another caller holds the mutex.
AddLock(a) ==
    /\ adders[a].pc = "lock"
    /\ specialStatusMutex = 0
    /\ specialStatusMutex' = a
    /\ adders' = [adders EXCEPT ![a].pc = "read"]
    /\ UNCHANGED <<specialStatusDomains, called, clears>>
    /\ ListFrame

\* append(specialStatusDomains, ...): the slice is read ...
AddRead(a) ==
    /\ adders[a].pc = "read"
    /\ adders' = [adders EXCEPT ![a].pc = "store", ![a].read = specialStatusDomains]
    /\ UNCHANGED <<specialStatusDomains, specialStatusMutex, called, clears>>
    /\ ListFrame

\* ... and the longer slice is assigned to specialStatusDomains.
AddStore(a) ==
    /\ adders[a].pc = "store"
    /\ specialStatusDomains' =
         addToSpecialStatus(adders[a].read, adders[a].domain, adders[a].reason)
    /\ adders' = [adders EXCEPT ![a].pc = "unlock"]
    /\ UNCHANGED <<specialStatusMutex, called, clears>>
    /\ ListFrame

\* The deferred specialStatusMutex.Unlock(); the call returns.
AddUnlock(a) ==
    /\ adders[a].pc = "unlock"
    /\ specialStatusMutex' = 0
    /\ adders' = [adders EXCEPT ![a] = AdderIdle]
    /\ UNCHANGED <<specialStatusDomains, called, clears>>
    /\ ListFrame

\* ClearSpecialStatusDomains(): under the mutex, specialStatusDomains = nil.
ClearSpecialStatusDomains ==
    /\ specialStatusMutex = 0
    /\ clears = 0
    /\ specialStatusDomains # <<>>
    /\ specialStatusDomains' = <<>>
    /\ clears' = clears + 1
    /\ UNCHANGED <<adders, specialStatusMutex, called>>
    /\ ListFrame

\* ------------------------------------------------ forwarder (main.go)

\* A forwarder that publishes its running count with every candidate.
FwdRecv_PublishCount ==
    /\ Running
    /\ fwdPc = "recv"
    /\ Len(domainChan) > 0
    /\ fwdItem' = Head(domainChan)
    /\ domainChan' = Tail(domainChan)
    /\ domainCount' = domainCount + 1
    /\ totalGenerated' = domainCount + 1
    /\ fwdPc' = "send"
    /\ UNCHANGED <<jobs, jobsClosed>>
    /\ UNCHANGED <<cfgVars, genPc, counter, domainChanClosed, emitted, timedOut, exited,
                   wrkVars, results, resultsClosed, received, produced, aggVars,
                   statusChan, statusChanClosed, monPc, prPc, mainPc,
                   specialStatusDomains, clsVars>>

\* for domain := range domainChan: receive the next candidate; domainCount++.
FwdRecv ==
    /\ Running
    /\ fwdPc = "recv"
    /\ Len(domainChan) > 0
    /\ fwdItem' = Head(domainChan)
    /\ domainChan' = Tail(domainChan)
    /\ domainCount' = domainCount + 1
    /\ fwdPc' = "send"
    /\ UNCHANGED <<totalGenerated, jobs, jobsClosed>>
    /\ UNCHANGED <<cfgVars, genPc, counter, domainChanClosed, emitted, timedOut, exited,
                   wrkVars, results, resultsClosed, received, produced, aggVars,
                   statusChan, statusChanClosed, monPc, prPc, mainPc,
                   specialStatusDomains, clsVars>>

\* jobs <- domain
FwdSend ==
    /\ Running
    /\ fwdPc = "send"
    /\ Len(jobs) < jobsCap
    /\ jobs' = Append(jobs, fwdItem)
    /\ fwdItem' = Nil
    /\ fwdPc' = "recv"
    /\ UNCHANGED <<domainCount, totalGenerated, jobsClosed>>
    /\ UNCHANGED <<cfgVars, genVars, exited,
                   wrkVars, results, resultsClosed, received, produced, aggVars,
                   statusChan, statusChanClosed, monPc, prPc, mainPc,
                   specialStatusDomains, clsVars>>

\* The range loop ends on the closed, drained domainChan:
\* totalGenerated = domainCount.
FwdFinish ==
    /\ Running
    /\ fwdPc = "recv"
    /\ Len(domainChan) = 0
    /\ domainChanClosed
    /\ totalGenerated' = domainCount
    /\ fwdPc' = "close"
    /\ UNCHANGED <<fwdItem, domainCount, jobs, jobsClosed>>
    /\ UNCHANGED <<cfgVars, genVars, exited,
                   wrkVars, results, resultsClosed, received, produced, aggVars,
                   statusChan, statusChanClosed, monPc, prPc, mainPc,
                   specialStatusDomains, clsVars>>

\* defer close(jobs)
FwdClose ==
    /\ Running
    /\ fwdPc = "close"
    /\ jobsClosed' = TRUE
    /\ fwdPc' = "done"
    /\ UNCHANGED <<fwdItem, domainCount, totalGenerated, jobs>>
    /\ UNCHANGED <<cfgVars, genVars, exited,
                   wrkVars, results, resultsClosed, received, produced, aggVars,
                   statusChan, statusChanClosed, monPc, prPc, mainPc,
                   specialStatusDomains, clsVars>>

\* ------------------------------------------------------------- worker

\* What one call of CheckDomainAvailability can return and append, by its
\* return statements: [available, status] with status the Status of the
\* special-status record it appended (empty for none).
CheckReturns ==
    { [available |-> FALSE, status |-> <<>>],                    \* signatures, or a Registered indicator
      [available |-> TRUE,  status |-> <<>>],                    \* Available indicator, or nothing found
      [available |-> TRUE,  status |-> WHOIS_RATE_LIMITED],    \* handleRateLimitedDomain
      [available |-> FALSE, status |-> REDEMPTIONPERIOD] }     \* a special-status indicator

\* The signature lists the worker's own call of CheckDomainSignatures returns,
\* within the model.
SignatureReturns == { <<>>, <<"DNS_A">> }

\* for domainName := range jobs: receive the next candidate.
WorkerRecv(w) ==
    /\ Running
    /\ wPc[w] = "recv"
    /\ Len(jobs) > 0
    /\ wDomain' = [wDomain EXCEPT ![w] = Head(jobs)]
    /\ jobs' = Tail(jobs)
    /\ received' = received (+) SetToBag({Head(jobs)})
    /\ wPc' = [wPc EXCEPT ![w] = "check"]
    /\ UNCHANGED <<wResult, results, resultsClosed, produced, jobsClosed, foundAvailable>>
    /\ UNCHANGED <<cfgVars, genVars, exited, fwdVars, aggVars,
                   statusChan, statusChanClosed, monPc, prPc, mainPc,
                   specialStatusDomains, clsVars>>

\* A worker that leaves as soon as it finds the jobs channel empty.
WorkerExit_WhenEmpty(w) ==
    /\ Running
    /\ wPc[w] = "recv"
    /\ Len(jobs) = 0
    /\ wPc' = [wPc EXCEPT ![w] = "exit"]
    /\ UNCHANGED <<wDomain, wResult, results, resultsClosed, received, produced,
                   jobs, jobsClosed, foundAvailable>>
    /\ UNCHANGED <<cfgVars, genVars, exited, fwdVars, aggVars,
                   statusChan, statusChanClosed, monPc, prPc, mainPc,
                   specialStatusDomains, clsVars>>

\* The range loop ends on the closed, drained jobs channel.
WorkerExit(w) ==
    /\ Running
    /\ wPc[w] = "recv"
    /\ Len(jobs) = 0
    /\ jobsClosed
    /\ wPc' = [wPc EXCEPT ![w] = "exit"]
    /\ UNCHANGED <<wDomain, wResult, results, resultsClosed, received, produced,
                   jobs, jobsClosed, foundAvailable>>
    /\ UNCHANGED <<cfgVars, genVars, exited, fwdVars, aggVars,
                   statusChan, statusChanClosed, monPc, prPc, mainPc,
                   specialStatusDomains, clsVars>>

\* available, err := CheckDomainAvailability(domainName);
\* signatures, _ := CheckDomainSignatures(domainName); build the DomainResult.
WorkerCheck(w) ==
    /\ Running
    /\ wPc[w] = "check"
    /\ \E r \in CheckReturns, sigs \in SignatureReturns :
         /\ wResult' = [wResult EXCEPT ![w] =
                          [Domain |-> wDomain[w], Available |-> r.available,
                           Error |-> Nil, Signatures |-> sigs, SpecialStatus |-> ""]]
         /\ specialStatusDomains' =
              IF r.status = <<>>
              THEN specialStatusDomains
              ELSE Append(specialStatusDomains, SpecialStatusDomain(wDomain[w], r.status))
         /\ foundAvailable' =
              IF r.available THEN foundAvailable \cup {wDomain[w]} ELSE foundAvailable
    /\ wPc' = [wPc EXCEPT ![w] = "send"]
    /\ UNCHANGED <<wDomain, results, resultsClosed, received, produced, jobs, jobsClosed>>
    /\ UNCHANGED <<cfgVars, genVars, exited, fwdVars, aggVars,
                   statusChan, statusChanClosed, monPc, prPc, mainPc, clsVars>>

\* A send that gives up when the channel is full.
WorkerSend_DropWhenFull(w) ==
    /\ Running
    /\ wPc[w] = "send"
    /\ ~resultsClosed
    /\ results' = IF Len(results) < resultsCap THEN Append(results, wResult[w]) ELSE results
    /\ produced' = produced (+) SetToBag({wResult[w].Domain})
    /\ wDomain' = [wDomain EXCEPT ![w] = Nil]
    /\ wResult' = [wResult EXCEPT ![w] = Nil]
    /\ wPc' = [wPc EXCEPT ![w] = "sleep"]
    /\ UNCHANGED <<resultsClosed, received, jobs, jobsClosed, foundAvailable>>
    /\ UNCHANGED <<cfgVars, genVars, exited, fwdVars, aggVars,
                   statusChan, statusChanClosed, monPc, prPc, mainPc,
                   specialStatusDomains, clsVars>>

\* results <- types.DomainResult{...}.  (A send on a closed channel would
\* panic; the guard leaves such a worker stuck in "send", where
\* an invariant can see it.)
WorkerSend(w) ==
    /\ Running
    /\ wPc[w] = "send"
    /\ ~resultsClosed
    /\ Len(results) < resultsCap
    /\ results' = Append(results, wResult[w])
    /\ produced' = produced (+) SetToBag({wResult[w].Domain})
    /\ wDomain' = [wDomain EXCEPT ![w] = Nil]
    /\ wResult' = [wResult EXCEPT ![w] = Nil]
    /\ wPc' = [wPc EXCEPT ![w] = "sleep"]
    /\ UNCHANGED <<resultsClosed, received, jobs, jobsClosed, foundAvailable>>
    /\ UNCHANGED <<cfgVars, genVars, exited, fwdVars, aggVars,
                   statusChan, statusChanClosed, monPc, prPc, mainPc,
                   specialStatusDomains, clsVars>>

\* time.Sleep(delay)
WorkerSleep(w) ==
    /\ Running
    /\ wPc[w] = "sleep"
    /\ wPc' = [wPc EXCEPT ![w] = "recv"]
    /\ UNCHANGED <<wDomain, wResult, results, resultsClosed, received, produced,
                   jobs, jobsClosed, foundAvailable>>
    /\ UNCHANGED <<cfgVars, genVars, exited, fwdVars, aggVars,
                   statusChan, statusChanClosed, monPc, prPc, mainPc,
                   specialStatusDomains, clsVars>>

\* --------------------------------------------------------- aggregator

\* for result := range results: receive; processedCount++;
\* totalProcessed = processedCount.
AggRecv ==
    /\ Running
    /\ aggPc = "recv"
    /\ Len(results) > 0
    /\ aggItem' = Head(results)
    /\ results' = Tail(results)
    /\ processedCount' = processedCount + 1
    /\ totalProcessed' = processedCount + 1
    /\ aggPc' = "handle"
    /\ UNCHANGED <<availableDomains, registeredDomains, wgDone, statusChan,
                   statusChanClosed, resultsClosed>>
    /\ UNCHANGED <<cfgVars, genVars, exited, fwdVars, jobs, jobsClosed, wrkVars,
                   received, produced, monPc, prPc, mainPc,
                   specialStatusDomains, clsVars>>

\* An aggregator without the error branch: a Result is filed by its
\* Available field whatever its Error field holds.
AggHandle_NoErrorBranch ==
    /\ Running
    /\ aggPc = "handle"
    /\ IF aggItem.Available
       THEN /\ Len(statusChan) < statusChanCap
            /\ statusChan' = Append(statusChan,
                 [kind |-> "available", n |-> processedCount, domain |-> aggItem.Domain])
            /\ availableDomains' = Append(availableDomains, aggItem.Domain)
            /\ UNCHANGED registeredDomains
       ELSE IF showRegistered
       THEN /\ Len(statusChan) < statusChanCap
            /\ statusChan' = Append(statusChan,
                 [kind |-> "registered", n |-> processedCount, domain |-> aggItem.Domain])
            /\ registeredDomains' = Append(registeredDomains, aggItem.Domain)
            /\ UNCHANGED availableDomains
       ELSE UNCHANGED <<statusChan, availableDomains, registeredDomains>>
    /\ aggItem' = Nil
    /\ aggPc' = "recv"
    /\ UNCHANGED <<processedCount, totalProcessed, wgDone, statusChanClosed,
                   results, resultsClosed>>
    /\ UNCHANGED <<cfgVars, genVars, exited, fwdVars, jobs, jobsClosed, wrkVars,
                   received, produced, monPc, prPc, mainPc,
                   specialStatusDomains, clsVars>>

\* The body of the range loop after the counters: the error branch, the
\* available branch, the registered branch.
AggHandle ==
    /\ Running
    /\ aggPc = "handle"
    /\ IF aggItem.Error # Nil
       THEN /\ Len(statusChan) < statusChanCap
            /\ statusChan' = Append(statusChan,
                 [kind |-> "error", n |-> processedCount, domain |-> aggItem.Domain])
            /\ UNCHANGED <<availableDomains, registeredDomains>>
       ELSE IF aggItem.Available
       THEN /\ Len(statusChan) < statusChanCap
            /\ statusChan' = Append(statusChan,
                 [kind |-> "available", n |-> processedCount, domain |-> aggItem.Domain])
            /\ availableDomains' = Append(availableDomains, aggItem.Domain)
            /\ UNCHANGED registeredDomains
       ELSE IF showRegistered
       THEN /\ Len(statusChan) < statusChanCap
            /\ statusChan' = Append(statusChan,
                 [kind |-> "registered", n |-> processedCount, domain |-> aggItem.Domain])
            /\ registeredDomains' = Append(registeredDomains, aggItem.Domain)
            /\ UNCHANGED availableDomains
       ELSE UNCHANGED <<statusChan, availableDomains, registeredDomains>>
    /\ aggItem' = Nil
    /\ aggPc' = "recv"
    /\ UNCHANGED <<processedCount, totalProcessed, wgDone, statusChanClosed,
                   results, resultsClosed>>
    /\ UNCHANGED <<cfgVars, genVars, exited, fwdVars, jobs, jobsClosed, wrkVars,
                   received, produced, monPc, prPc, mainPc,
                   specialStatusDomains, clsVars>>

\* The range loop ends on the closed, drained results channel:
\* close(statusChan), then the deferred wg.Done().
AggFinish ==
    /\ Running
    /\ aggPc = "recv"
    /\ Len(results) = 0
    /\ resultsClosed
    /\ statusChanClosed' = TRUE
    /\ wgDone' = TRUE
    /\ aggPc' = "done"
    /\ UNCHANGED <<aggItem, processedCount, totalProcessed, availableDomains,
                   registeredDomains, statusChan, results, resultsClosed>>
    /\ UNCHANGED <<cfgVars, genVars, exited, fwdVars, jobs, jobsClosed, wrkVars,
                   received, produced, monPc, prPc, mainPc,
                   specialStatusDomains, clsVars>>

\* ------------------------------------------------- completion monitor

\* MonGenerated without its wait for a non-zero totalGenerated: the monitor
\* goes on before the forwarder has counted the candidates.
MonGenerated_NoWait ==
    /\ Running
    /\ monPc = "waitGenerated"
    /\ monPc' = "waitProcessed"
    /\ UNCHANGED <<cfgVars, genVars, exited, fwdVars, jobs, jobsClosed, wrkVars,
                   results, resultsClosed, received, produced, aggVars,
                   statusChan, statusChanClosed, prPc, mainPc,
                   specialStatusDomains, clsVars>>

\* for totalGenerated == 0 { time.Sleep(100ms) }: the loop is left when a
\* poll reads a non-zero totalGenerated.  (The reads of totalGenerated and
\* totalProcessed are not synchronised; a poll that misses a write only polls
\* again, so the monitor is modelled as passing once the value is there.)
MonGenerated ==
    /\ Running
    /\ monPc = "waitGenerated"
    /\ totalGenerated # 0
    /\ monPc' = "waitProcessed"
    /\ UNCHANGED <<cfgVars, genVars, exited, fwdVars, jobs, jobsClosed, wrkVars,
                   results, resultsClosed, received, produced, aggVars,
                   statusChan, statusChanClosed, prPc, mainPc,
                   specialStatusDomains, clsVars>>

\* A monitor that does not wait for the results to be processed.
MonProcessed_NoWait ==
    /\ Running
    /\ monPc = "waitProcessed"
    /\ monPc' = "grace"
    /\ UNCHANGED <<cfgVars, genVars, exited, fwdVars, jobs, jobsClosed, wrkVars,
                   results, resultsClosed, received, produced, aggVars,
                   statusChan, statusChanClosed, prPc, mainPc,
                   specialStatusDomains, clsVars>>

\* for totalProcessed < totalGenerated { time.Sleep(100ms) }
MonProcessed ==
    /\ Running
    /\ monPc = "waitProcessed"
    /\ ~(totalProcessed < totalGenerated)
    /\ monPc' = "grace"
    /\ UNCHANGED <<cfgVars, genVars, exited, fwdVars, jobs, jobsClosed, wrkVars,
                   results, resultsClosed, received, produced, aggVars,
                   statusChan, statusChanClosed, prPc, mainPc,
                   specialStatusDomains, clsVars>>

\* time.Sleep(1 * time.Second); close(results)
MonClose ==
    /\ Running
    /\ monPc = "grace"
    /\ resultsClosed' = TRUE
    /\ monPc' = "done"
    /\ UNCHANGED <<cfgVars, genVars, exited, fwdVars, jobs, jobsClosed, wrkVars,
                   results, received, produced, aggVars,
                   statusChan, statusChanClosed, prPc, mainPc,
                   specialStatusDomains, clsVars>>

\* ------------------------------------------------------ status printer

\* for msg := range statusChan { fmt.Println(msg) }
PrintRecv ==
    /\ Running
    /\ prPc = "recv"
    /\ Len(statusChan) > 0
    /\ statusChan' = Tail(statusChan)
    /\ UNCHANGED <<cfgVars, genVars, exited, fwdVars, jobs, jobsClosed, wrkVars,
                   results, resultsClosed, received, produced, aggVars,
                   statusChanClosed, monPc, prPc, mainPc,
                   specialStatusDomains, clsVars>>

PrintExit ==
    /\ Running
    /\ prPc = "recv"
    /\ Len(statusChan) = 0
    /\ statusChanClosed
    /\ prPc' = "done"
    /\ UNCHANGED <<cfgVars, genVars, exited, fwdVars, jobs, jobsClosed, wrkVars,
                   results, resultsClosed, received, produced, aggVars,
                   statusChan, statusChanClosed, monPc, mainPc,
                   specialStatusDomains, clsVars>>

\* --------------------------------------------------------------- main

\* wg.Wait() returns; main writes the lists and the summary and returns.
MainDone ==
    /\ Running
    /\ mainPc = "wait"
    /\ wgDone
    /\ mainPc' = "done"
    /\ UNCHANGED <<cfgVars, genVars, exited, fwdVars, jobs, jobsClosed, wrkVars,
                   results, resultsClosed, received, produced, aggVars,
                   statusChan, statusChanClosed, monPc, prPc,
                   specialStatusDomains, clsVars>>

\* --------------------------------------------------- the run of main.go

vars == <<cfgVars, genVars, exited, fwdVars, jobs, jobsClosed, wrkVars,
          results, resultsClosed, received, produced, aggVars,
          statusChan, statusChanClosed, monPc, prPc, mainPc,
          specialStatusDomains, clsVars>>

\* The channels, counters and goroutines of main.go at their first
\* statement, for one configuration.
PipelineStart ==
    /\ genPc = "run" /\ counter = 0 /\ domainChan = <<>> /\ domainChanClosed = FALSE
    /\ emitted = <<>> /\ timedOut = {} /\ exited = FALSE
    /\ fwdPc = "recv" /\ fwdItem = Nil /\ domainCount = 0 /\ totalGenerated = 0
    /\ jobs = <<>> /\ jobsClosed = FALSE
    /\ wPc = [w \in Workers |-> "recv"]
    /\ wDomain = [w \in Workers |-> Nil]
    /\ wResult = [w \in Workers |-> Nil]
    /\ foundAvailable = {}
    /\ results = <<>> /\ resultsClosed = FALSE
    /\ received = EmptyBag /\ produced = EmptyBag
    /\ aggPc = "recv" /\ aggItem = Nil /\ processedCount = 0 /\ totalProcessed = 0
    /\ availableDomains = <<>> /\ registeredDomains = <<>>
    /\ statusChan = <<>> /\ statusChanClosed = FALSE /\ wgDone = FALSE
    /\ monPc = "waitGenerated" /\ prPc = "recv"
    /\ adders = [a \in Adders |-> AdderIdle] /\ specialStatusMutex = 0
    /\ called = EmptyBag /\ clears = 0
    /\ statusCalls = <<>> /\ variantCalls = <<>>

Init ==
    /\ length \in 0..MaxLen
    /\ suffix = DefaultSuffix
    /\ pattern \in Patterns
    /\ regexFilter \in RegexFilters
    /\ regexMode \in RegexModes
    /\ workers \in 1..MaxWorkers
    /\ showRegistered \in BOOLEAN
    /\ globalConfig \in {NilConfig}
    /\ Enumerable(pattern, length)
    /\ Cardinality(MatchingCounters(pattern, length, suffix, regexFilter, regexMode)) <= MaxCands
    /\ cls = ClsIdle
    /\ guard = GuardIdle
    /\ specialStatusDomains = <<>>
    /\ PipelineStart
    /\ mainPc = "start"

Next ==
    \/ GenRejectFilter \/ GenInvalidRegex \/ MainStart
    \/ GenStep \/ GenClose \/ GenInvalidPattern
    \/ FwdRecv \/ FwdSend \/ FwdFinish \/ FwdClose
    \/ \E w \in Workers : WorkerRecv(w)
    \/ \E w \in Workers : WorkerExit(w)
    \/ \E w \in Workers : WorkerCheck(w)
    \/ \E w \in Workers : WorkerSend(w)
    \/ \E w \in Workers : WorkerSleep(w)
    \/ AggRecv \/ AggHandle \/ AggFinish
    \/ MonGenerated \/ MonProcessed \/ MonClose
    \/ PrintRecv \/ PrintExit
    \/ MainDone

Spec == Init /\ [][Next]_vars

\* The generator and the forwarder alone, before any worker is scheduled:
\* every configuration whose enumeration the model can exhaust.
InitGen ==
    /\ length \in 0..MaxLen
    /\ suffix \in Suffixes
    /\ pattern \in Patterns
    /\ regexFilter \in RegexFilters
    /\ regexMode \in RegexModes
    /\ workers = 1
    /\ showRegistered = FALSE
    /\ globalConfig = NilConfig
    /\ Enumerable(pattern, length)
    /\ Cardinality(MatchingCounters(pattern, length, suffix, regexFilter, regexMode)) <= MaxEmit
    /\ cls = ClsIdle
    /\ guard = GuardIdle
    /\ specialStatusDomains = <<>>
    /\ PipelineStart
    /\ mainPc = "start"

NextGen ==
    \/ GenRejectFilter \/ GenInvalidRegex \/ MainStart
    \/ GenStep \/ GenClose \/ GenInvalidPattern
    \/ FwdRecv \/ FwdSend \/ FwdFinish \/ FwdClose

SpecGen == InitGen /\ [][NextGen]_vars

\* One call CheckDomainAvailability(CheckedDomain), followed statement by
\* statement, with or without a configuration installed by SetConfig and with
\* an empty or a non-empty special-status list; main.go's pipeline stands
\* still.
InitClassify ==
    /\ length = 0 /\ pattern = "d" /\ suffix = DefaultSuffix
    /\ regexFilter = "" /\ regexMode = "full"
    /\ workers = 1 /\ showRegistered = FALSE
    /\ globalConfig \in {NilConfig} \cup Methods
    /\ specialStatusDomains \in
         { <<>>, <<SpecialStatusDomain(OtherDomain, WHOIS_RATE_LIMITED)>> }
    /\ cls = ClsStart(CheckedDomain, specialStatusDomains)
    /\ guard = GuardIdle
    /\ PipelineStart
    /\ mainPc = "wait"

NextClassify ==
    \/ SigDns
    \/ SigWhoisSkip
    \/ SigWhoisAttempt
    \/ SigSsl
    \/ Classify
    \/ FinalAttempt

SpecClassify == InitClassify /\ [][NextClassify]_vars

\* One call of validateRegexComplexity on a filter the user wrote: one of
\* GuardBases, lengthened character by character.
InitGuard ==
    /\ length = 0 /\ pattern = "d" /\ suffix = DefaultSuffix
    /\ regexFilter = "" /\ regexMode = "full"
    /\ workers = 1 /\ showRegistered = FALSE
    /\ globalConfig = NilConfig
    /\ specialStatusDomains = <<>>
    /\ cls = ClsIdle
    /\ guard \in { GuardStart(b, c) : b \in GuardBases, c \in PadChars }
    /\ PipelineStart
    /\ mainPc = "wait"

NextGuard ==
    \/ GuardPad
    \/ GuardValidate

SpecGuard == InitGuard /\ [][NextGuard]_vars

\* Up to MaxAdders goroutines inside addToSpecialStatus at the same time,
\* and one call of ClearSpecialStatusDomains; main.go's pipeline stands still.
InitList ==
    /\ length = 0 /\ pattern = "d" /\ suffix = DefaultSuffix
    /\ regexFilter = "" /\ regexMode = "full"
    /\ workers = 1 /\ showRegistered = FALSE
    /\ globalConfig = NilConfig
    /\ specialStatusDomains = <<>>
    /\ cls = ClsIdle
    /\ guard = GuardIdle
    /\ PipelineStart
    /\ mainPc = "wait"

NextList ==
    \/ \E a \in Adders : AddCall(a)
    \/ \E a \in Adders : AddLock(a)
    \/ \E a \in Adders : AddRead(a)
    \/ \E a \in Adders : AddStore(a)
    \/ \E a \in Adders : AddUnlock(a)
    \/ ClearSpecialStatusDomains

SpecList == InitList /\ [][NextList]_vars

\* A run of -l 4 -p d -r "^9|^8999": the generator emits 8999.li and
\* 9000.li .. 9999.li, one candidate more than a channel holds.
BacklogFilter == "^9|^8999"

\* The candidates of the counters 8999 .. 9999.
BacklogItems ==
    [k \in 1..1001 |-> CounterToString(numbers, 8998 + k, 4) \o DefaultSuffix]

\* The DomainResult of a candidate found registered by its DNS records.
RegisteredResult(domain) ==
    [Domain |-> domain, Available |-> FALSE, Error |-> Nil,
     Signatures |-> <<"DNS_A">>, SpecialStatus |-> ""]

\* -workers 0: the generator has sent 999 candidates and the forwarder has
\* not been scheduled yet.
GeneratorAhead ==
    /\ workers = 0
    /\ genPc = "run" /\ counter = 8999 + 999
    /\ domainChan = SubSeq(BacklogItems, 1, 999) /\ domainChanClosed = FALSE
    /\ emitted = SubSeq(BacklogItems, 1, 999)
    /\ fwdPc = "recv" /\ fwdItem = Nil /\ domainCount = 0 /\ totalGenerated = 0
    /\ jobs = <<>> /\ jobsClosed = FALSE
    /\ wPc = <<>> /\ wDomain = <<>> /\ wResult = <<>> /\ foundAvailable = {}
    /\ results = <<>>
    /\ received = EmptyBag /\ produced = EmptyBag
    /\ monPc = "waitGenerated"

\* -workers 1: the generator and the forwarder are done, the worker has sent
\* 999 results and holds the next one, the monitor has seen totalGenerated,
\* and the aggregator has not been scheduled yet.
WorkerAhead ==
    /\ workers = 1
    /\ genPc = "closed" /\ counter = 8999 + 1001
    /\ domainChan = <<>> /\ domainChanClosed = TRUE
    /\ emitted = BacklogItems
    /\ fwdPc = "done" /\ fwdItem = Nil /\ domainCount = 1001 /\ totalGenerated = 1001
    /\ jobs = <<BacklogItems[1001]>> /\ jobsClosed = TRUE
    /\ wPc = <<"send">> /\ wDomain = <<BacklogItems[1000]>>
    /\ wResult = <<RegisteredResult(BacklogItems[1000])>> /\ foundAvailable = {}
    /\ results = [k \in 1..999 |-> RegisteredResult(BacklogItems[k])]
    /\ received = SetToBag({BacklogItems[k] : k \in 1..1000})
    /\ produced = SetToBag({BacklogItems[k] : k \in 1..999})
    /\ monPc = "waitProcessed"

InitBacklog ==
    /\ length = 4 /\ pattern = "d" /\ suffix = DefaultSuffix
    /\ regexFilter = BacklogFilter /\ regexMode = "full"
    /\ showRegistered = FALSE
    /\ globalConfig = NilConfig
    /\ GeneratorAhead \/ WorkerAhead
    /\ timedOut = {} /\ exited = FALSE /\ resultsClosed = FALSE
    /\ aggPc = "recv" /\ aggItem = Nil /\ processedCount = 0 /\ totalProcessed = 0
    /\ availableDomains = <<>> /\ registeredDomains = <<>>
    /\ statusChan = <<>> /\ statusChanClosed = FALSE /\ wgDone = FALSE
    /\ prPc = "recv" /\ mainPc = "wait"
    /\ specialStatusDomains = <<>>
    /\ cls = ClsIdle /\ guard = GuardIdle
    /\ adders = [a \in Adders |-> AdderIdle] /\ specialStatusMutex = 0
    /\ called = EmptyBag /\ clears = 0
    /\ statusCalls = <<>> /\ variantCalls = <<>>

\* (With no worker the forwarder never gets to the end of its loop, and with
\* one it is already past it: FwdFinish and FwdClose have no step here, as
\* MonGenerated has none.)
NextBacklog ==
    \/ GenStep \/ GenClose
    \/ FwdRecv \/ FwdSend
    \/ \E w \in Workers : WorkerRecv(w)
    \/ \E w \in Workers : WorkerExit(w)
    \/ \E w \in Workers : WorkerCheck(w)
    \/ \E w \in Workers : WorkerSend(w)
    \/ \E w \in Workers : WorkerSleep(w)
    \/ AggRecv \/ AggHandle \/ AggFinish
    \/ MonProcessed \/ MonClose
    \/ PrintRecv \/ PrintExit
    \/ MainDone

SpecBacklog == InitBacklog /\ [][NextBacklog]_vars

\* ------------------------------------------------------------- claims

\* The aggregator, the monitor and the printer of main.go on the Results a
\* worker can build from the two return values of CheckDomainAvailability:
\* the workers have sent their last Result and left, and the results channel
\* holds up to MaxResults Results, each with or without an Error.
MaxResults == 3

\* The non-nil error of a DomainResult.
CheckError == "check failed"

\* types.DomainResult{Domain, Available: available, Error: err, ...}
ResultOf(domain, available, err) ==
    [Domain |-> domain, Available |-> available, Error |-> err,
     Signatures |-> <<>>, SpecialStatus |-> ""]

ResultQueues ==
    UNION { { [k \in 1..n |-> ResultOf(CounterToString(numbers, k - 1, 1) \o DefaultSuffix,
                                       av[k], er[k])] :
                av \in [1..n -> BOOLEAN], er \in [1..n -> {Nil, CheckError}] } :
            n \in 1..MaxResults }

InitAggregate ==
    /\ length = 1 /\ pattern = "d" /\ suffix = DefaultSuffix
    /\ regexFilter = "" /\ regexMode = "full"
    /\ workers = 1
    /\ showRegistered \in BOOLEAN
    /\ globalConfig = NilConfig
    /\ results \in ResultQueues
    /\ resultsClosed = FALSE
    /\ genPc = "closed" /\ counter = 10
    /\ domainChan = <<>> /\ domainChanClosed = TRUE
    /\ emitted = [k \in 1..Len(results) |-> results[k].Domain]
    /\ timedOut = {} /\ exited = FALSE
    /\ fwdPc = "done" /\ fwdItem = Nil
    /\ domainCount = Len(results) /\ totalGenerated = Len(results)
    /\ jobs = <<>> /\ jobsClosed = TRUE
    /\ wPc = <<"exit">> /\ wDomain = <<Nil>> /\ wResult = <<Nil>>
    /\ foundAvailable = { results[k].Domain : k \in { j \in 1..Len(results) : results[j].Available } }
    /\ received = SetToBag(Range(emitted)) /\ produced = SetToBag(Range(emitted))
    /\ aggPc = "recv" /\ aggItem = Nil /\ processedCount = 0 /\ totalProcessed = 0
    /\ availableDomains = <<>> /\ registeredDomains = <<>>
    /\ statusChan = <<>> /\ statusChanClosed = FALSE /\ wgDone = FALSE
    /\ monPc = "waitProcessed" /\ prPc = "recv" /\ mainPc = "wait"
    /\ specialStatusDomains = <<>>
    /\ cls = ClsIdle /\ guard = GuardIdle
    /\ adders = [a \in Adders |-> AdderIdle] /\ specialStatusMutex = 0
    /\ called = EmptyBag /\ clears = 0
    /\ statusCalls = <<>> /\ variantCalls = <<>>

NextAggregate ==
    \/ AggRecv \/ AggHandle \/ AggFinish
    \/ MonProcessed \/ MonClose
    \/ PrintRecv \/ PrintExit
    \/ MainDone

SpecAggregate == InitAggregate /\ [][NextAggregate]_vars

\* ------------------------------------ the main of src/unnamed/part_004
\*
\* The same generator, workers and printer; a forwarder that does not count,
\* an aggregator that leaves its loop at totalDomains Results, and a monitor
\* that itself ranges over domainChan before it closes results.

\* totalDomains := generator.CalculateDomainsCount(*length, *pattern)
totalDomains == CalculateDomainsCount(length, pattern)

\* for domain := range domainChan (forwarder): receive the next candidate.
P4FwdRecv ==
    /\ Running
    /\ fwdPc = "recv"
    /\ Len(domainChan) > 0
    /\ fwdItem' = Head(domainChan)
    /\ domainChan' = Tail(domainChan)
    /\ fwdPc' = "send"
    /\ UNCHANGED <<domainCount, totalGenerated, jobs, jobsClosed>>
    /\ UNCHANGED <<cfgVars, genPc, counter, domainChanClosed, emitted, timedOut, exited,
                   wrkVars, results, resultsClosed, received, produced, aggVars,
                   statusChan, statusChanClosed, monPc, prPc, mainPc,
                   specialStatusDomains, clsVars>>

\* The forwarder's loop ends on the closed, drained domainChan: the deferred
\* close(jobs).
P4FwdClose ==
    /\ Running
    /\ fwdPc = "recv"
    /\ Len(domainChan) = 0
    /\ domainChanClosed
    /\ jobsClosed' = TRUE
    /\ fwdPc' = "done"
    /\ UNCHANGED <<fwdItem, domainCount, totalGenerated, jobs>>
    /\ UNCHANGED <<cfgVars, genVars, exited,
                   wrkVars, results, resultsClosed, received, produced, aggVars,
                   statusChan, statusChanClosed, monPc, prPc, mainPc,
                   specialStatusDomains, clsVars>>

\* for result := range results: receive; processedCount++.
P4AggRecv ==
    /\ Running
    /\ aggPc = "recv"
    /\ Len(results) > 0
    /\ aggItem' = Head(results)
    /\ results' = Tail(results)
    /\ processedCount' = processedCount + 1
    /\ aggPc' = "handle"
    /\ UNCHANGED <<totalProcessed, availableDomains, registeredDomains, wgDone,
                   statusChan, statusChanClosed, resultsClosed>>
    /\ UNCHANGED <<cfgVars, genVars, exited, fwdVars, jobs, jobsClosed, wrkVars,
                   received, produced, monPc, prPc, mainPc,
                   specialStatusDomains, clsVars>>

\* The body of the loop: the error branch (continue), the available and the
\* registered branch, then `if processedCount >= totalDomains { break }`,
\* after which close(statusChan) and the deferred wg.Done() follow.
P4AggHandle ==
    /\ Running
    /\ aggPc = "handle"
    /\ IF aggItem.Error # Nil
       THEN /\ Len(statusChan) < statusChanCap
            /\ statusChan' = Append(statusChan,
                 [kind |-> "error", n |-> processedCount, domain |-> aggItem.Domain])
            /\ UNCHANGED <<availableDomains, registeredDomains>>
       ELSE IF aggItem.Available
       THEN /\ Len(statusChan) < statusChanCap
            /\ statusChan' = Append(statusChan,
                 [kind |-> "available", n |-> processedCount, domain |-> aggItem.Domain])
            /\ availableDomains' = Append(availableDomains, aggItem.Domain)
            /\ UNCHANGED registeredDomains
       ELSE IF showRegistered
       THEN /\ Len(statusChan) < statusChanCap
            /\ statusChan' = Append(statusChan,
                 [kind |-> "registered", n |-> processedCount, domain |-> aggItem.Domain])
            /\ registeredDomains' = Append(registeredDomains, aggItem.Domain)
            /\ UNCHANGED availableDomains
       ELSE UNCHANGED <<statusChan, availableDomains, registeredDomains>>
    /\ aggItem' = Nil
    /\ IF aggItem.Error = Nil /\ IntAtMost(totalDomains, processedCount)
       THEN aggPc' = "done" /\ statusChanClosed' = TRUE /\ wgDone' = TRUE
       ELSE aggPc' = "recv" /\ UNCHANGED <<statusChanClosed, wgDone>>
    /\ UNCHANGED <<processedCount, totalProcessed, results, resultsClosed>>
    /\ UNCHANGED <<cfgVars, genVars, exited, fwdVars, jobs, jobsClosed, wrkVars,
                   received, produced, monPc, prPc, mainPc,
                   specialStatusDomains, clsVars>>

\* for range domainChan {} (monitor): the monitor receives a candidate from
\* the generator channel and drops it.
P4MonDrain ==
    /\ Running
    /\ monPc = "waitGenerated"
    /\ Len(domainChan) > 0
    /\ domainChan' = Tail(domainChan)
    /\ UNCHANGED <<genPc, counter, domainChanClosed, emitted, timedOut, exited>>
    /\ UNCHANGED <<cfgVars, fwdVars, jobs, jobsClosed, wrkVars,
                   results, resultsClosed, received, produced, aggVars,
                   statusChan, statusChanClosed, monPc, prPc, mainPc,
                   specialStatusDomains, clsVars>>

\* The monitor's loop ends on the closed, drained domainChan; the sleep of
\* one second and close(results) follow (MonClose).
P4MonDrained ==
    /\ Running
    /\ monPc = "waitGenerated"
    /\ Len(domainChan) = 0
    /\ domainChanClosed
    /\ monPc' = "grace"
    /\ UNCHANGED <<cfgVars, genVars, exited, fwdVars, jobs, jobsClosed, wrkVars,
                   results, resultsClosed, received, produced, aggVars,
                   statusChan, statusChanClosed, prPc, mainPc,
                   specialStatusDomains, clsVars>>

NextPart004 ==
    \/ GenRejectFilter \/ GenInvalidRegex \/ MainStart
    \/ GenStep \/ GenClose \/ GenInvalidPattern
    \/ P4FwdRecv \/ FwdSend \/ P4FwdClose
    \/ \E w \in Workers : WorkerRecv(w)
    \/ \E w \in Workers : WorkerExit(w)
    \/ \E w \in Workers : WorkerCheck(w)
    \/ \E w \in Workers : WorkerSend(w)
    \/ \E w \in Workers : WorkerSleep(w)
    \/ P4AggRecv \/ P4AggHandle \/ AggFinish
    \/ P4MonDrain \/ P4MonDrained \/ MonClose
    \/ PrintRecv \/ PrintExit
    \/ MainDone

SpecPart004 == Init /\ [][NextPart004]_vars

\* ----------------------- checkSpecialStatus (special_status_domains.go)

\* specialStatusIndicators, the map literal of checkSpecialStatus, as its set
\* of (key, value) pairs.
statusOfIndicator == {
    [indicator |-> <<"s","t","a","t","u","s",":"," ","r","e","d","e","m","p","t","i","o","n","p","e","r","i","o","d">>, status |-> "Redemption Period"],  \* status: redemptionperiod
    [indicator |-> <<"s","t","a","t","u","s",":"," ","p","e","n","d","i","n","g","d","e","l","e","t","e">>, status |-> "Pending Delete"],  \* status: pendingdelete
    [indicator |-> <<"s","t","a","t","u","s",":"," ","h","o","l","d">>, status |-> "Hold"],  \* status: hold
    [indicator |-> <<"s","t","a","t","u","s",":"," ","i","n","a","c","t","i","v","e">>, status |-> "Inactive"],  \* status: inactive
    [indicator |-> <<"s","t","a","t","u","s",":"," ","s","u","s","p","e","n","d","e","d">>, status |-> "Suspended"],  \* status: suspended
    [indicator |-> <<"s","t","a","t","u","s",":"," ","r","e","s","e","r","v","e","d">>, status |-> "Reserved"],  \* status: reserved
    [indicator |-> <<"s","t","a","t","u","s",":"," ","q","u","a","r","a","n","t","i","n","e","d">>, status |-> "Quarantined"],  \* status: quarantined
    [indicator |-> <<"s","t","a","t","u","s",":"," ","p","e","n","d","i","n","g">>, status |-> "Pending Registration"],  \* status: pending
    [indicator |-> <<"s","t","a","t","u","s",":"," ","t","r","a","n","s","f","e","r">>, status |-> "Transfer Pending"],  \* status: transfer
    [indicator |-> <<"s","t","a","t","u","s",":"," ","g","r","a","c","e">>, status |-> "Grace Period"],  \* status: grace
    [indicator |-> <<"s","t","a","t","u","s",":"," ","a","u","t","o","r","e","n","e","w","p","e","r","i","o","d">>, status |-> "Auto-Renew Period"],  \* status: autorenewperiod
    [indicator |-> <<"s","t","a","t","u","s",":"," ","r","e","d","e","m","p","t","i","o","n">>, status |-> "Redemption Period"],  \* status: redemption
    [indicator |-> <<"s","t","a","t","u","s",":"," ","e","x","p","i","r","e">>, status |-> "Expired"]  \* status: expire
    }

T_pendingDelete == <<"S","t","a","t","u","s",":"," ","p","e","n","d","i","n","g","D","e","l","e","t","e">>  \* two indicators: pending and pendingdelete

T_holdInactive == <<"s","t","a","t","u","s",":"," ","h","o","l","d"," ","s","t","a","t","u","s",":"," ","i","n","a","c","t","i","v","e">>  \* two indicators side by side

T_redemptionPeriod == <<"S","t","a","t","u","s",":"," ","r","e","d","e","m","p","t","i","o","n","P","e","r","i","o","d">>  \* two indicators with the same status

StatusTexts == WhoisTexts \cup { T_pendingDelete, T_holdInactive, T_redemptionPeriod }

\* checkSpecialStatus(whoisResult): what a call can return.  The loop ranges
\* over a map, whose iteration order Go leaves unspecified: the first key
\* visited that the lower-cased text contains decides, and any key the text
\* contains can be that one.
checkSpecialStatus(whoisResult) ==
    LET result == ToLower(whoisResult)
        hits   == { e \in statusOfIndicator : Contains(result, e.indicator) }
    IN  IF hits = {}
        THEN { [found |-> FALSE, status |-> ""] }
        ELSE { [found |-> TRUE, status |-> e.status] : e \in hits }

MaxStatusCalls == 2

checkSpecialStatusOf == [t \in StatusTexts |-> checkSpecialStatus(t)]

\* One call of checkSpecialStatus on a WHOIS text.
StatusCall ==
    /\ Len(statusCalls) < MaxStatusCalls
    /\ \E t \in StatusTexts : \E r \in checkSpecialStatusOf[t] :
         statusCalls' = Append(statusCalls, [text |-> t, found |-> r.found, status |-> r.status])
    /\ UNCHANGED <<cfgVars, genVars, exited, fwdVars, jobs, jobsClosed, wrkVars,
                   results, resultsClosed, received, produced, aggVars,
                   statusChan, statusChanClosed, monPc, prPc, mainPc,
                   specialStatusDomains, cls, guard, listVars, variantCalls>>

InitStatus ==
    /\ length = 0 /\ pattern = "d" /\ suffix = DefaultSuffix
    /\ regexFilter = "" /\ regexMode = "full"
    /\ workers = 1 /\ showRegistered = FALSE
    /\ globalConfig = NilConfig
    /\ specialStatusDomains = <<>>
    /\ cls = ClsIdle
    /\ guard = GuardIdle
    /\ PipelineStart
    /\ mainPc = "wait"

NextStatus == StatusCall

SpecStatus == InitStatus /\ [][NextStatus]_vars

\* ---------------------------------------------------------------------------
\* The three variants of CheckDomainAvailability, on one WHOIS text: the
\* lookup answers the text without error at its first attempt, in
\* CheckDomainSignatures and in the final loop alike, and the DNS and TLS
\* probes find nothing.
\* ---------------------------------------------------------------------------

\* specialStatusIndicators of both variants of internal/domain/checker.go
specialStatusIndicatorsChecker == <<
    <<"s","t","a","t","u","s",":"," ","r","e","d","e","m","p","t","i","o","n","p","e","r","i","o","d">>,
    <<"s","t","a","t","u","s",":"," ","p","e","n","d","i","n","g","d","e","l","e","t","e">>,
    <<"s","t","a","t","u","s",":"," ","h","o","l","d">>,
    <<"s","t","a","t","u","s",":"," ","i","n","a","c","t","i","v","e">>,
    <<"s","t","a","t","u","s",":"," ","s","u","s","p","e","n","d","e","d">>,
    <<"s","t","a","t","u","s",":"," ","r","e","s","e","r","v","e","d">>,
    <<"s","t","a","t","u","s",":"," ","q","u","a","r","a","n","t","i","n","e","d">>,
    <<"s","t","a","t","u","s",":"," ","p","e","n","d","i","n","g">>,
    <<"s","t","a","t","u","s",":"," ","t","r","a","n","s","f","e","r">>,
    <<"s","t","a","t","u","s",":"," ","g","r","a","c","e">>,
    <<"s","t","a","t","u","s",":"," ","a","u","t","o","r","e","n","e","w","p","e","r","i","o","d">>,
    <<"s","t","a","t","u","s",":"," ","r","e","d","e","m","p","t","i","o","n">>,
    <<"s","t","a","t","u","s",":"," ","e","x","p","i","r","e">>
    >>

\* The phrases of isRateLimitResponse in the first variant of checker.go
rateLimitPhrasesChecker == <<
    <<"c","o","n","n","e","c","t","i","o","n"," ","r","e","f","u","s","e","d">>,
    <<"a","c","c","e","s","s"," ","c","o","n","t","r","o","l">>,
    <<"l","i","m","i","t"," ","e","x","c","e","e","d","e","d">>
    >>

\* First variant of checker.go.  CheckDomainSignatures gives Available
\* indicators precedence; the final loop tests rate-limit phrases (without DNS
\* signatures: break, hence true), then the Available, the Registered and the
\* special-status indicators.
CheckDomainAvailabilityA(whoisResult) ==
    LET result     == ToLower(whoisResult)
        signatures == IF whoisResult = <<>> \/ ContainsAny(result, availableIndicators)
                      THEN <<>>
                      ELSE (IF ContainsAny(result, registeredIndicators) THEN <<"WHOIS">> ELSE <<>>)
                             \o (IF ContainsAny(result, reservedIndicators) THEN <<"RESERVED">> ELSE <<>>)
    IN  IF HasReserved(signatures) THEN FALSE
        ELSE IF hasRegistrationSignatures(signatures) THEN FALSE
        ELSE IF ContainsAny(result, rateLimitPhrasesChecker) THEN TRUE
        ELSE IF ContainsAny(result, availableIndicators) THEN TRUE
        ELSE IF ContainsAny(result, enhancedRegisteredIndicators) THEN FALSE
        ELSE IF ContainsAny(result, specialStatusIndicatorsChecker) THEN FALSE
        ELSE TRUE

\* Second variant of checker.go.  CheckDomainSignatures tests the Registered
\* and the Reserved indicators directly, any signature ends the call with
\* false, and the final loop has no rate-limit test.
CheckDomainAvailabilityB(whoisResult) ==
    LET result     == ToLower(whoisResult)
        signatures == IF whoisResult = <<>>
                      THEN <<>>
                      ELSE (IF ContainsAny(result, registeredIndicators) THEN <<"WHOIS">> ELSE <<>>)
                             \o (IF ContainsAny(result, reservedIndicators) THEN <<"RESERVED">> ELSE <<>>)
    IN  IF HasReserved(signatures) THEN FALSE
        ELSE IF Len(signatures) > 0 THEN FALSE
        ELSE IF ContainsAny(result, availableIndicators) THEN TRUE
        ELSE IF ContainsAny(result, enhancedRegisteredIndicators) THEN FALSE
        ELSE IF ContainsAny(result, specialStatusIndicatorsChecker) THEN FALSE
        ELSE TRUE

\* The variant of package domain with the special-status list.  A rate-limit
\* phrase at every attempt ends in the fallback, true without DNS signatures.
CheckDomainAvailabilityPart001(whoisResult) ==
    LET signatures == WhoisSignatures(whoisResult)
        response   == FinalResponse(whoisResult)
    IN  IF HasReserved(signatures) THEN FALSE
        ELSE IF hasRegistrationSignatures(signatures) THEN FALSE
        ELSE CASE response.kind = "ratelimit"  -> RateLimitedAvailable(FALSE)
               [] response.kind = "available"  -> TRUE
               [] response.kind = "registered" -> FALSE
               [] response.kind = "special"    -> FALSE
               [] OTHER                        -> UndeterminedAvailable

MaxVariantCalls == 3

AvailableAOf == [t \in StatusTexts |-> CheckDomainAvailabilityA(t)]

AvailableBOf == [t \in StatusTexts |-> CheckDomainAvailabilityB(t)]

AvailablePart001Of == [t \in StatusTexts |-> CheckDomainAvailabilityPart001(t)]

VariantFrame ==
    UNCHANGED <<cfgVars, genVars, exited, fwdVars, jobs, jobsClosed, wrkVars,
                results, resultsClosed, received, produced, aggVars,
                statusChan, statusChanClosed, monPc, prPc, mainPc,
                specialStatusDomains, cls, guard, listVars, statusCalls>>

\* One call of the first variant of checker.go for a domain whose WHOIS
\* answer is t.
CallVariantA ==
    /\ Len(variantCalls) < MaxVariantCalls
    /\ \E t \in StatusTexts :
         variantCalls' = Append(variantCalls, [variant |-> "A", text |-> t, available |-> AvailableAOf[t]])
    /\ VariantFrame

\* One call of the second variant of checker.go.
CallVariantB ==
    /\ Len(variantCalls) < MaxVariantCalls
    /\ \E t \in StatusTexts :
         variantCalls' = Append(variantCalls, [variant |-> "B", text |-> t, available |-> AvailableBOf[t]])
    /\ VariantFrame

\* One call of the variant with the special-status list.
CallPart001 ==
    /\ Len(variantCalls) < MaxVariantCalls
    /\ \E t \in StatusTexts :
         variantCalls' = Append(variantCalls, [variant |-> "part_001", text |-> t, available |-> AvailablePart001Of[t]])
    /\ VariantFrame

NextVariants == CallVariantA \/ CallVariantB \/ CallPart001

SpecVariants == InitStatus /\ [][NextVariants]_vars

\* main has returned from wg.Wait and finished.
RunComplete == mainPc = "done"

\* C1: at run completion the processed count equals the number of candidates
\* the generator emitted, and every emitted candidate was received from jobs
\* exactly once and had exactly one Result sent (none lost, none duplicated).
C1_ProcessedEqualsGenerated ==
    RunComplete =>
        /\ processedCount = Len(emitted)
        /\ totalProcessed = Len(emitted)
        /\ totalGenerated = Len(emitted)
        /\ \A d \in Range(emitted) : CopiesIn(d, received) = 1 /\ CopiesIn(d, produced) = 1
        /\ BagToSet(received) = Range(emitted)
        /\ BagToSet(produced) = Range(emitted)

\* A run with two workers and two candidates has completed.
C1_Witness ==
    /\ RunComplete
    /\ workers = 2
    /\ Len(emitted) = 2
    /\ processedCount = 2

\* C2: a run with a valid configuration never stops before it is complete:
\* whenever no goroutine can take a step, main has returned.  (With no cycle
\* in the run, this is "the run eventually completes" under fair scheduling.)
C2_RunCompletes ==
    (ValidPattern(pattern) /\ ~ENABLED Next) => RunComplete

\* ---- exact arithmetic for the count alphabetSize^length

RECURSIVE BigPow(_, _)
\* base^n, exact, as limbs (least significant first, no leading zero limb).
BigPow(base, n) == IF n = 0 THEN <<1>> ELSE MulLimbs(BigPow(base, n - 1), base, 0)

RECURSIVE NatToBig(_)
NatToBig(n) == IF n = 0 THEN <<>> ELSE <<n % LimbBase>> \o NatToBig(n \div LimbBase)

\* C3: with no regex filter, for every pattern in {d, D, a} and every
\* length >= 1 the generator emits exactly alphabetSize^length candidates,
\* each of length `length + |suffix|` and ending in the suffix, no two equal.
C3_EmitsAlphabetPowerLength ==
    (genPc = "closed" /\ regexFilter = "" /\ ValidPattern(pattern) /\ length >= 1) =>
        /\ NatToBig(Len(emitted)) = BigPow(Len(charset), length)
        /\ \A k \in 1..Len(emitted) :
             /\ Len(emitted[k]) = length + Len(suffix)
             /\ HasSuffix(emitted[k], suffix)
        /\ Cardinality(Range(emitted)) = Len(emitted)

\* The same, for the lengths whose alphabetSize^length fits the int `total`
\* (checked to see what part of C3 the code does meet).
C3_HoldsWhileTotalFits ==
    (genPc = "closed" /\ regexFilter = "" /\ ValidPattern(pattern) /\ length >= 1
       /\ BigPow(Len(charset), length) = NatToBig(LoopCount(pattern, length))) =>
        /\ NatToBig(Len(emitted)) = BigPow(Len(charset), length)
        /\ \A k \in 1..Len(emitted) :
             /\ Len(emitted[k]) = length + Len(suffix)
             /\ HasSuffix(emitted[k], suffix)
        /\ Cardinality(Range(emitted)) = Len(emitted)

\* ---- claims about one call of CheckDomainAvailability (SpecClassify)

\* What an answer contains, by the lists of the source, after lower-casing.
HasRateLimitPhrase(t) == ContainsAny(ToLower(t), finalRateLimitPhrases)

HasAvailableIndicator(t) == ContainsAny(ToLower(t), availableIndicators)

HasRegisteredIndicator(t) ==
    \/ ContainsAny(ToLower(t), registeredIndicators)
    \/ ContainsAny(ToLower(t), enhancedRegisteredIndicators)

HasReservedIndicator(t) == ContainsAny(ToLower(t), reservedIndicators)

HasSpecialIndicator(t) == ContainsAny(ToLower(t), specialStatusIndicators)

RedemptionText == <<"S","t","a","t","u","s",":"," ">> \o REDEMPTIONPERIOD

HasRedemption(t) == Contains(t, RedemptionText)

TextFacts ==
    [t \in WhoisTexts |->
        [rateLimit  |-> HasRateLimitPhrase(t),
         available  |-> HasAvailableIndicator(t),
         registered |-> HasRegisteredIndicator(t),
         reserved   |-> HasReservedIndicator(t),
         special    |-> HasSpecialIndicator(t),
         redemption |-> HasRedemption(t)]]

Returned == cls.pc = "return"

SignatureSet == IF cls.pc = "idle" THEN {} ELSE Range(cls.signatures)

\* The records the call has appended to the special-status list.
Appended ==
    SubSeq(specialStatusDomains, Len(cls.before) + 1, Len(specialStatusDomains))

\* C4: a call that gathered RESERVED or any of DNS_NS, DNS_A, DNS_MX,
\* DNS_TXT, DNS_CNAME, WHOIS, SSL returns Available=false, and it returns
\* before any final-verification WHOIS query is made, so no later answer can
\* change the verdict.
C4_SignaturesForceNotAvailable ==
    (Returned /\ SignatureSet \cap ({"RESERVED", "WHOIS", "SSL"} \cup DNSSignatureNames) # {}) =>
        /\ cls.available = FALSE
        /\ cls.attempts = 0

C4_Witness ==
    /\ Returned
    /\ {"DNS_CNAME", "RESERVED", "SSL"} \subseteq SignatureSet
    /\ cls.available = FALSE

\* C5: with no signature at all and a final-verification answer that has no
\* rate-limit phrase and no Available, Registered or Special-status
\* indicator, the call returns Available=true and the special-status list is
\* what it was before the call.
C5_SilentAnswerIsAvailable ==
    (/\ Returned
     /\ cls.signatures = <<>>
     /\ cls.finalText # <<>>
     /\ LET f == TextFacts[cls.finalText[1]]
        IN  ~f.rateLimit /\ ~f.available /\ ~f.registered /\ ~f.special) =>
        /\ cls.available = TRUE
        /\ specialStatusDomains = cls.before

C5_Witness ==
    /\ Returned
    /\ cls.signatures = <<>>
    /\ cls.finalText = <<T_silent>>
    /\ cls.limited > 0
    /\ cls.available = TRUE

\* C6: a call that ends in handleRateLimitedDomain without DNS signature
\* returns Available=true and has appended exactly one record, for its
\* domain, with status WHOIS_RATE_LIMITED, with or without a configuration.
C6_FallbackRecordsRateLimit ==
    (Returned /\ cls.fallback /\ ~cls.hasDNSSignatures) =>
        /\ cls.available = TRUE
        /\ Appended = <<SpecialStatusDomain(cls.domain, WHOIS_RATE_LIMITED)>>

\* C7: the call ends in handleRateLimitedDomain if and only if it made all
\* five final-verification attempts and every one of them was rate-limited.
C7_FallbackIffAllRateLimited ==
    Returned =>
        (cls.fallback <=> (cls.attempts = finalMaxRetries /\ cls.limited = cls.attempts))

\* C8: a call that returns Available=true although no WHOIS query gave a
\* usable answer has appended a special-status record for its domain.
C8_UnreachableWhoisIsFlagged ==
    (Returned /\ cls.available = TRUE /\ ~cls.answered) =>
        \E k \in 1..Len(Appended) : Appended[k].Domain = cls.domain

\* The call got one and the same answer from every WHOIS query it made, and
\* no DNS or SSL signature.
OnlyAnswer(t) ==
    /\ Returned
    /\ ~cls.failed
    /\ cls.seen = {t}
    /\ SignatureSet \cap (DNSSignatureNames \cup {"SSL"}) = {}

\* The WHOIS part of CheckDomainSignatures has classified an answer.
SigAnswered == cls.pc \in {"ssl", "classify", "final", "return"} /\ cls.sigText # <<>>

\* C9 (as stated): an answer with an Available indicator gives neither a
\* WHOIS nor a RESERVED signature and, without DNS or SSL signature, the
\* verdict Available=true with no special-status record, whatever else the
\* answer contains.
C9_AvailableIndicatorWins ==
    /\ (SigAnswered /\ TextFacts[cls.sigText[1]].available) =>
           SignatureSet \cap {"WHOIS", "RESERVED"} = {}
    /\ \A t \in WhoisTexts :
         (OnlyAnswer(t) /\ TextFacts[t].available) =>
             cls.available = TRUE /\ Appended = <<>>

\* C9 (amended): the same for an answer with an Available indicator and no
\* rate-limit phrase; the signature part holds for every answer with an
\* Available indicator.
C9_AvailableWinsUnlessRateLimited ==
    /\ (SigAnswered /\ TextFacts[cls.sigText[1]].available) =>
           SignatureSet \cap {"WHOIS", "RESERVED"} = {}
    /\ \A t \in WhoisTexts :
         (OnlyAnswer(t) /\ TextFacts[t].available /\ ~TextFacts[t].rateLimit) =>
             cls.available = TRUE /\ Appended = <<>>

C9_Witness ==
    /\ OnlyAnswer(T_allKinds)
    /\ cls.sigText = <<T_allKinds>>
    /\ cls.finalText = <<T_allKinds>>
    /\ cls.available = TRUE

\* C10 (as stated): every answer that contains "Status: REDEMPTIONPERIOD",
\* without DNS or SSL signature, gives Available=false and one special-status
\* record with status REDEMPTIONPERIOD.
C10_RedemptionIsSpecialStatus ==
    \A t \in WhoisTexts :
        (OnlyAnswer(t) /\ TextFacts[t].redemption) =>
            /\ cls.available = FALSE
            /\ Appended = <<SpecialStatusDomain(cls.domain, REDEMPTIONPERIOD)>>

\* C10 (amended): the same for an answer that contains
\* "Status: REDEMPTIONPERIOD" and no rate-limit phrase and no Available,
\* Registered or Reserved indicator.
C10_RedemptionAloneIsSpecialStatus ==
    \A t \in WhoisTexts :
        (/\ OnlyAnswer(t)
         /\ TextFacts[t].redemption
         /\ ~TextFacts[t].rateLimit
         /\ ~TextFacts[t].available
         /\ ~TextFacts[t].registered
         /\ ~TextFacts[t].reserved) =>
            /\ cls.available = FALSE
            /\ Appended = <<SpecialStatusDomain(cls.domain, REDEMPTIONPERIOD)>>

C10_Witness ==
    /\ OnlyAnswer(T_redemption)
    /\ cls.sigText = <<T_redemption>>
    /\ cls.finalText = <<T_redemption>>
    /\ cls.available = FALSE
    /\ Appended = <<SpecialStatusDomain(CheckedDomain, REDEMPTIONPERIOD)>>

\* The status each of these answers names, upper-cased as the record holds it.
ListedStatus ==
    [t \in {T_clientHold, T_clientHoldSpaced, T_serverHold, T_expired} |->
        ToUpper(TrimPrefix(ToLower(t), StatusPrefix))]

\* C11: an answer whose status is client-hold, server-hold or expired (and
\* that has no Available indicator) gives Available=false and one
\* special-status record whose status is the matched one: CLIENTHOLD,
\* CLIENT HOLD, SERVERHOLD, EXPIRED.
C11_ListedStatusesRecorded ==
    \A t \in DOMAIN ListedStatus :
        (OnlyAnswer(t) /\ ~TextFacts[t].available) =>
            /\ cls.available = FALSE
            /\ Appended = <<SpecialStatusDomain(cls.domain, ListedStatus[t])>>

\* ---- claims about one call of validateRegexComplexity (SpecGuard)

\* What the filter is, by the three reasons for rejection, with its length
\* counted in characters.
TooManyCharacters(p) == Len(p) > maxPatternLength

DenyListed(p) == \E d \in Range(dangerousPatterns) : Contains(p, d)

QuantifierCount(p) == Count(p, "+") + Count(p, "*")

\* C12: the guard rejects a filter exactly when it is longer than 200
\* characters, or contains a deny-listed shape, or has more than 5 '+' and
\* '*' together; so 200 characters and 5 quantifiers are accepted, "(a+)+" is
\* rejected and "^[a-z]{2}[0-9]$" is accepted.
C12_GuardRejectsExactly ==
    guard.pc = "done" =>
        /\ guard.err # Nil <=>
             \/ TooManyCharacters(guard.pattern)
             \/ DenyListed(guard.pattern)
             \/ QuantifierCount(guard.pattern) > maxQuantifiers
        /\ guard.pattern = F_classic => guard.err # Nil
        /\ guard.pattern = F_accepted => guard.err = Nil

\* The same holds for every filter written in ASCII.
C12_HoldsForAscii ==
    (guard.pc = "done" /\ Count(guard.pattern, NonAscii) = 0) =>
        /\ guard.err # Nil <=>
             \/ TooManyCharacters(guard.pattern)
             \/ DenyListed(guard.pattern)
             \/ QuantifierCount(guard.pattern) > maxQuantifiers
        /\ guard.pattern = F_classic => guard.err # Nil
        /\ guard.pattern = F_accepted => guard.err = Nil

\* ---- claims about the generator with a filter (SpecGen)

\* The candidates of the run that the filter matches when the match finishes
\* in time.
Matching ==
    { CounterToString(charset, c, length) \o suffix :
        c \in MatchingCounters(pattern, length, suffix, regexFilter, regexMode) }

\* C13: a match that runs out of time drops exactly its candidate: nothing is
\* emitted for it, the run is not aborted, and when the generator has
\* finished every other matching candidate has been emitted.
C13_TimeoutDropsOnlyThatCandidate ==
    timedOut # {} =>
        /\ Range(emitted) \cap timedOut = {}
        /\ genPc # "exit" /\ ~exited
        /\ genPc = "closed" => Range(emitted) = Matching \ timedOut

C13_Witness ==
    /\ genPc = "closed"
    /\ timedOut \cap Matching # {}
    /\ Len(emitted) > 0
    /\ Len(emitted) = Cardinality(Matching) - 1

\* The filter matches what the mode hands it for this body.
FilterAccepts(body) ==
    MatchString(regexFilter, IF regexMode = "full" THEN body \o suffix ELSE body).match

\* What the forwarder has taken and put on the jobs queue was emitted, and
\* the scenario of length 2, suffix ".ai", letters, filter "^a".
C14_OnlyEmittedForwarded ==
    (regexFilter # "" /\ ValidPattern(pattern)) =>
        /\ Range(jobs) \subseteq Range(emitted)
        /\ fwdPc = "send" => fwdItem \in Range(emitted)
        /\ domainCount <= Len(emitted) /\ totalGenerated <= Len(emitted)
        /\ (/\ genPc = "closed" /\ length = 2 /\ pattern = "D"
            /\ suffix = <<".", "a", "i">> /\ regexFilter = "^a") =>
               emitted = [k \in 1..26 |-> <<"a", letters[k], ".", "a", "i">>]

\* C14: with a filter set, each iteration of the generator whose match
\* finishes in time emits its candidate if and only if the filter matches
\* body+suffix in full mode, the body in prefix mode; what the forwarder
\* takes and puts on the jobs queue are emitted candidates only; and length
\* 2, suffix ".ai", letters, filter "^a" emits exactly "aa.ai" .. "az.ai".
C14_EmitsExactlyTheMatches ==
    /\ []C14_OnlyEmittedForwarded
    /\ [][(regexFilter # "" /\ counter' = counter + 1 /\ timedOut' = timedOut) =>
             LET body == CounterToString(charset, counter, length)
             IN  IF FilterAccepts(body)
                 THEN emitted' = Append(emitted, body \o suffix)
                 ELSE emitted' = emitted]_vars

C14_Witness ==
    /\ genPc = "closed" /\ length = 2 /\ pattern = "D" /\ regexMode = "full"
    /\ suffix = <<".", "a", "i">> /\ regexFilter = "^a"
    /\ Len(emitted) = 26
    /\ Len(jobs) = 26

\* The filter of the run, applied to a candidate once more.
FilterAgain(domain) ==
    MatchOf(regexFilter, regexMode,
            SubSeq(domain, 1, Len(domain) - Len(suffix)), domain, FALSE)

RejectedFilters == {"(a+)+", "[a"}

ConfigurationError == pattern \notin {"d", "D", "a"} \/ regexFilter \in RejectedFilters

\* C16: with a pattern other than d, D, a, or a filter the guard or the
\* compiler rejects, nothing is ever emitted on the generator channel and no
\* worker ever receives a candidate or starts a probe.
C16_ConfigurationErrorAborts ==
    ConfigurationError =>
        /\ emitted = <<>> /\ domainChan = <<>> /\ jobs = <<>>
        /\ received = EmptyBag /\ produced = EmptyBag
        /\ \A w \in Workers : wPc[w] = "recv"
        /\ mainPc # "done"

C16_Witness ==
    /\ exited
    /\ regexFilter = "(a+)+" /\ pattern = "D" /\ length = 1
    /\ mainPc = "start"

\* The records of a list, as a bag.
RecordsOf(list) ==
    [r \in Range(list) |-> Cardinality({k \in 1..Len(list) : list[k] = r})]

IsPrefixOf(shorter, longer) ==
    /\ Len(shorter) <= Len(longer)
    /\ SubSeq(longer, 1, Len(shorter)) = shorter

\* Every call made has returned.
AllReturned == \A a \in Adders : adders[a].pc = "idle"

C17_ExactlyTheRecords ==
    (AllReturned /\ clears = 0) =>
        /\ RecordsOf(specialStatusDomains) = called
        /\ Len(specialStatusDomains) = BagCardinality(called)

\* C17: after any interleaving of k concurrent calls of addToSpecialStatus
\* the list holds exactly the k records of those calls, and a step that is
\* not ClearSpecialStatusDomains only ever lengthens the list at its end.
C17_ListRaceFreeAppendOnly ==
    /\ []C17_ExactlyTheRecords
    /\ [][clears' = clears =>
            IsPrefixOf(specialStatusDomains, specialStatusDomains')]_vars

C17_Witness ==
    /\ AllReturned /\ clears = 0
    /\ BagCardinality(called) = 3
    /\ Len(specialStatusDomains) = 3
    /\ specialStatusDomains[1] # specialStatusDomains[2]

C18_AtMostThousand ==
    /\ Len(domainChan) <= 1000
    /\ Len(jobs) <= 1000
    /\ Len(results) <= 1000

\* Every candidate sent is in a queue, in a consumer's hand or consumed, in
\* the order of sending (one worker at most).
C18_NothingLost ==
    LET taken == BagCardinality(received)
        sent  == BagCardinality(produced)
        held  == IF fwdPc = "send" THEN <<fwdItem>> ELSE <<>>
    IN  /\ domainChan = SubSeq(emitted, domainCount + 1, Len(emitted))
        /\ jobs \o held = SubSeq(emitted, taken + 1, domainCount)
        /\ [k \in 1..Len(results) |-> results[k].Domain] =
             SubSeq(emitted, processedCount + 1, sent)
        /\ \A w \in Workers : wPc[w] \in {"check", "send"} => wDomain[w] = emitted[taken]

\* C18: the generator buffer, the jobs queue and the results queue never hold
\* more than 1000 items; while a queue holds 1000 its producer stays where it
\* is; and nothing sent is lost or overwritten.
C18_QueuesBoundedAndBlocking ==
    /\ [](C18_AtMostThousand /\ C18_NothingLost)
    /\ [][ /\ Len(domainChan) = 1000 => emitted' = emitted
           /\ (Len(jobs) = 1000 /\ fwdPc = "send") =>
                 (fwdPc' = "send" /\ fwdItem' = fwdItem)
           /\ Len(results) = 1000 =>
                 \A w \in Workers : wPc[w] = "send" =>
                     (wPc'[w] = "send" /\ wResult'[w] = wResult[w]) ]_vars

C18_Witness ==
    /\ Len(results) = 1000
    /\ \E w \in Workers : wPc[w] = "send" /\ wDomain[w] = BacklogItems[1001]
    /\ processedCount = 0

\* The call has left the loop of CheckDomainSignatures; it has left the
\* final-verification loop.
SigLoopOver == cls.pc \notin {"dns", "whois"}

FinalLoopOver == cls.pc = "return"

\* No sleep of the log was slept after the last of the queries made.
NoSleepAfterLast(sleeps, queries) ==
    \A k \in 1..Len(sleeps) : sleeps[k].after < queries

C19_Bounded ==
    /\ cls.sigQueries <= 3 /\ cls.attempts <= 5
    /\ Len(cls.sigSleeps) <= 4 /\ Len(cls.finalSleeps) <= 4
    /\ SigLoopOver => NoSleepAfterLast(cls.sigSleeps, cls.sigQueries)
    /\ FinalLoopOver => NoSleepAfterLast(cls.finalSleeps, cls.attempts)

\* C19: for every sequence of WHOIS outcomes the signature loop makes at most
\* 3 queries and the final loop at most 5; each step inside a loop is one
\* more query, so both loops end; and no sleep follows the last query.
C19_RetriesBounded ==
    /\ []C19_Bounded
    /\ [][ /\ cls.pc = "whois" /\ WHOISEnabled => cls'.sigQueries = cls.sigQueries + 1
           /\ cls.pc = "final" => cls'.attempts = cls.attempts + 1 ]_vars

C19_Witness ==
    /\ cls.pc = "return"
    /\ cls.sigQueries = 3 /\ cls.attempts = 5
    /\ Len(cls.sigSleeps) = 4 /\ Len(cls.finalSleeps) = 4
    /\ ~cls.fallback

RECURSIVE SecondsAfter(_, _)
\* The wait between query k and query k+1: the sleeps slept in between.
SecondsAfter(sleeps, k) ==
    IF sleeps = <<>> THEN 0
    ELSE (IF Head(sleeps).after = k THEN Head(sleeps).seconds ELSE 0)
         + SecondsAfter(Tail(sleeps), k)

RECURSIVE TotalSeconds(_)
TotalSeconds(sleeps) ==
    IF sleeps = <<>> THEN 0 ELSE Head(sleeps).seconds + TotalSeconds(Tail(sleeps))

\* Each wait of the log is at least twice the wait before it.
Doubling(sleeps, queries) ==
    \A k \in 1..(queries - 2) :
        SecondsAfter(sleeps, k + 1) >= 2 * SecondsAfter(sleeps, k)

\* C20: in both retry loops the wait before the next attempt is at least
\* twice the previous wait, and the total wait of a loop is bounded.
C20_BackoffDoubles ==
    /\ Doubling(cls.sigSleeps, cls.sigQueries)
    /\ Doubling(cls.finalSleeps, cls.attempts)
    /\ TotalSeconds(cls.sigSleeps) <= 28
    /\ TotalSeconds(cls.finalSleeps) <= 60

\* The part of C20 that holds: the total wait of the signature loop is at most
\* 28 seconds and that of the final loop at most 60.
C20_TotalWaitBounded ==
    /\ TotalSeconds(cls.sigSleeps) <= 28
    /\ TotalSeconds(cls.finalSleeps) <= 60

\* The probes globalConfig enables, in the order DNS, WHOIS, TLS.
EnabledProbes ==
    (IF DNSEnabled THEN <<"dns">> ELSE <<>>)
      \o (IF WHOISEnabled THEN <<"whois">> ELSE <<>>)
      \o (IF SSLEnabled THEN <<"ssl">> ELSE <<>>)

\* CheckDomainSignatures has returned and its caller has not gone on yet.
SignaturesReturned == cls.pc = "classify"

Has(sig) == sig \in Range(cls.signatures)

\* C21: when CheckDomainSignatures returns it has run every enabled probe, in
\* the order DNS, WHOIS, TLS, whatever each answered; a lookup that failed,
\* a WHOIS loop that ran out of retries and a dial that failed have added no
\* signature; and the error it returns is nil.
C21_ProbeFailuresAbsorbed ==
    /\ cls.err = Nil
    /\ SignaturesReturned =>
         /\ cls.probes.ran = EnabledProbes
         /\ cls.probes.err = Nil
         /\ \A a \in Range(cls.probes.dns) :
              /\ a.ns = "error" => ~Has("DNS_NS")
              /\ a.ip = "error" => ~Has("DNS_A")
              /\ a.mx = "error" => ~Has("DNS_MX")
              /\ a.txt = "error" => ~Has("DNS_TXT")
              /\ a.cname.err # Nil => ~Has("DNS_CNAME")
         /\ (cls.sigQueries = 3 /\ cls.sigText = <<>>) =>
              (~Has("WHOIS") /\ ~Has("RESERVED"))
         /\ cls.probes.tls = <<"error">> => ~Has("SSL")

C21_Witness ==
    /\ SignaturesReturned
    /\ cls.probes.ran = <<"dns", "whois", "ssl">>
    /\ \E a \in Range(cls.probes.dns) :
         /\ a.ns = "error" /\ a.ip = "error" /\ a.mx = "error"
         /\ a.txt = "records" /\ a.cname.err # Nil
    /\ cls.sigQueries = 3 /\ cls.sigText = <<>>
    /\ cls.probes.tls = <<"error">>
    /\ cls.signatures = <<"DNS_TXT">>

\* How often a domain is in a list of domains.
Occurrences(list, d) == Cardinality({k \in 1..Len(list) : list[k] = d})

\* The domains of the special-status list, in order.
SpecialDomains == [k \in 1..Len(specialStatusDomains) |-> specialStatusDomains[k].Domain]

\* C22: at run completion the domain of every processed Result is in exactly
\* one of the available, registered and special-status lists, exactly once.
C22_ResultsPartitioned ==
    RunComplete =>
        \A d \in BagToSet(produced) :
            Occurrences(availableDomains, d) + Occurrences(registeredDomains, d)
              + Occurrences(SpecialDomains, d) = 1

\* The part of C22 that holds: no domain is in the available or the
\* registered list more than once, nor in both.
C22_AtMostOnceAvailableOrRegistered ==
    \A d \in BagToSet(produced) :
        Occurrences(availableDomains, d) + Occurrences(registeredDomains, d) <= 1

\* C23: no Result in the results queue has Available = true together with a
\* non-empty Signatures list.
C23_SignaturesMatchVerdict ==
    \A k \in 1..Len(results) :
        results[k].Available => results[k].Signatures = <<>>

\* C24: at run completion the set of domains in the available list and the
\* set in the registered list are given by the candidates, what
\* CheckDomainAvailability returned for each, and -show-registered alone:
\* they are the same whatever the interleaving was.
C24_ListsGivenByVerdicts ==
    RunComplete =>
        /\ Range(availableDomains) = foundAvailable
        /\ Range(registeredDomains) =
             IF showRegistered THEN Range(emitted) \ foundAvailable ELSE {}
        /\ Len(availableDomains) = Cardinality(foundAvailable)

\* Two workers; both candidates are found available and the second emitted
\* is listed first.
C24_Witness ==
    /\ RunComplete
    /\ workers = 2
    /\ Len(emitted) = 2
    /\ availableDomains = <<emitted[2], emitted[1]>>

\* C25: a Result whose Error field is set is counted as processed and does
\* not stop the run: receiving it increments the processed count, handling
\* it leaves the available and the registered list as they were and takes
\* the aggregator back to its receive, the program has not exited, and when
\* main returns every Result, failed or not, has been counted.
ErrorResultInHand == aggPc = "handle" /\ aggItem.Error # Nil

C25_Counted ==
    /\ aggPc = "handle" => processedCount = totalProcessed
    /\ processedCount + Len(results) = totalGenerated
    /\ ~exited
    /\ RunComplete => processedCount = totalGenerated

C25_ErrorResultCountedAndSkipped ==
    /\ []C25_Counted
    /\ [][ /\ (aggPc = "recv" /\ aggPc' = "handle") =>
                 /\ processedCount' = processedCount + 1
                 /\ aggItem' = Head(results)
           /\ (ErrorResultInHand /\ aggPc' # "handle") =>
                 /\ availableDomains' = availableDomains
                 /\ registeredDomains' = registeredDomains
                 /\ processedCount' = processedCount
                 /\ aggPc' = "recv"
                 /\ results' = results ]_vars

\* With -show-registered the second Result is in hand and both lists are
\* empty: the first Result was a failed one, and the loop went on.
C25_Witness ==
    /\ showRegistered
    /\ processedCount = 2
    /\ aggPc = "handle"
    /\ aggItem.Error = Nil
    /\ availableDomains = <<>> /\ registeredDomains = <<>>

\* C26: the worker protocol.  Each worker holds at most one candidate at a
\* time; a worker moves only receive -> check -> send -> sleep -> receive:
\* the receive takes the head of the jobs queue, the send appends to the
\* results queue the Result of the candidate just received, the sleep
\* follows the send and touches neither queue; nothing else appends to the
\* results queue or takes from the jobs queue; and a worker leaves only from
\* its receive, with the jobs queue closed and drained.
InHand == { w \in Workers : wPc[w] \in {"check", "send"} }

C26_OneCandidateEach ==
    /\ BagCardinality(received) - BagCardinality(produced) = Cardinality(InHand)
    /\ \A w \in Workers : wPc[w] \in {"recv", "check", "send", "sleep", "exit"}
    /\ \A w \in Workers : wPc[w] = "send" => wResult[w].Domain = wDomain[w]

WorkerStep(w) ==
    \/ /\ wPc[w] = "recv" /\ wPc'[w] = "check"
       /\ Len(jobs) > 0 /\ jobs' = Tail(jobs) /\ wDomain'[w] = Head(jobs)
       /\ results' = results
    \/ /\ wPc[w] = "check" /\ wPc'[w] = "send"
       /\ wResult'[w].Domain = wDomain[w] /\ wDomain'[w] = wDomain[w]
       /\ jobs' = jobs /\ results' = results
    \/ /\ wPc[w] = "send" /\ wPc'[w] = "sleep"
       /\ results' = Append(results, wResult[w])
       /\ jobs' = jobs
    \/ /\ wPc[w] = "sleep" /\ wPc'[w] = "recv"
       /\ jobs' = jobs /\ results' = results
    \/ /\ wPc[w] = "recv" /\ wPc'[w] = "exit"
       /\ jobsClosed /\ jobs = <<>>
       /\ jobs' = jobs /\ results' = results

C26_WorkerProtocol ==
    /\ []C26_OneCandidateEach
    /\ [][ /\ \A w \in Workers : wPc'[w] # wPc[w] => WorkerStep(w)
           /\ Len(results') > Len(results) =>
                \E w \in Workers : wPc[w] = "send" /\ wPc'[w] = "sleep"
           /\ Len(jobs') < Len(jobs) =>
                \E w \in Workers : wPc[w] = "recv" /\ wPc'[w] = "check" ]_vars

\* The only worker has sent the Result of its first candidate, slept, and
\* received its second candidate.
C26_Witness ==
    /\ workers = 1
    /\ wPc[1] = "check"
    /\ BagCardinality(produced) = 1
    /\ wDomain[1] = emitted[2]

\* C27: closure ordering in main.go.  Each channel is closed by one
\* goroutine, in the last step of that goroutine, so at most once, and only
\* when its stream is complete: the generator channel when the enumeration
\* loop is over, the jobs queue when every emitted candidate has been
\* forwarded into it, the results queue when the processed count has reached
\* the generated count, the status channel when the results queue is closed
\* and drained.  A closed channel is never reopened and nothing is sent on
\* it.
C27_ClosedWhenComplete ==
    /\ domainChanClosed <=> genPc = "closed"
    /\ jobsClosed <=> fwdPc = "done"
    /\ resultsClosed <=> monPc = "done"
    /\ statusChanClosed <=> aggPc = "done"
    /\ domainChanClosed => ~LoopRuns
    /\ jobsClosed =>
         /\ domainChanClosed /\ domainChan = <<>>
         /\ domainCount = Len(emitted)
         /\ Len(jobs) + BagCardinality(received) = Len(emitted)
    /\ resultsClosed =>
         /\ fwdPc \in {"close", "done"}
         /\ totalGenerated = Len(emitted)
         /\ processedCount = totalGenerated /\ totalProcessed = totalGenerated
    /\ statusChanClosed => resultsClosed /\ results = <<>>

NoWorkLeft ==
    /\ \A w \in Workers : wPc[w] \in {"recv", "sleep", "exit"}
    /\ domainChan = <<>> /\ fwdPc \in {"close", "done"} /\ jobs = <<>>
    /\ BagCardinality(produced) = Len(emitted)
    /\ results = <<>>

C28_NoWorkLeftAtClose == (monPc \in {"grace", "done"} \/ resultsClosed) => NoWorkLeft

C28_ResultsClosedAfterLastSend ==
    /\ []C28_NoWorkLeftAtClose
    /\ [][ (resultsClosed \/ resultsClosed') =>
             /\ results' = results
             /\ produced' = produced
             /\ \A w \in Workers : wPc'[w] \in {"recv", "sleep", "exit"} ]_vars

\* The results channel is closed while both workers are still in their
\* sleep and the forwarder has not closed the jobs queue yet.
C28_Witness ==
    /\ resultsClosed
    /\ workers = 2
    /\ wPc[1] = "sleep" /\ wPc[2] = "sleep"
    /\ ~jobsClosed

\* C29: mixed-radix enumeration.  With no filter, the k-th emitted candidate
\* (k from 0) is the suffix appended to the fixed-length representation of k
\* in base |alphabet|, most significant symbol first, over the alphabet
\* 0-9 (d), a-z (D), a-z then 0-9 (a); and each candidate is
\* lexicographically greater, in that alphabet order, than the one before.
Alphabet ==
    CASE pattern = "d" -> <<"0","1","2","3","4","5","6","7","8","9">>
      [] pattern = "D" -> <<"a","b","c","d","e","f","g","h","i","j","k","l","m",
                            "n","o","p","q","r","s","t","u","v","w","x","y","z">>
      [] pattern = "a" -> <<"a","b","c","d","e","f","g","h","i","j","k","l","m",
                            "n","o","p","q","r","s","t","u","v","w","x","y","z",
                            "0","1","2","3","4","5","6","7","8","9">>

\* The i-th symbol (from the left) of the representation of k.
SymbolOf(k, i) == Alphabet[((k \div (Len(Alphabet) ^ (length - i))) % Len(Alphabet)) + 1]

Representation(k) == [i \in 1..length |-> SymbolOf(k, i)]

Rank(c) == CHOOSE r \in 1..Len(Alphabet) : Alphabet[r] = c

LexLess(a, b) ==
    \E i \in 1..length :
        /\ \A j \in 1..(i - 1) : a[j] = b[j]
        /\ Rank(a[i]) < Rank(b[i])

C29_MixedRadixEnumeration ==
    regexFilter = "" =>
        /\ \A k \in 1..Len(emitted) : emitted[k] = Representation(k - 1) \o suffix
        /\ \A k \in 2..Len(emitted) : LexLess(emitted[k - 1], emitted[k])

\* All hundred two-digit candidates are out: the eleventh is 10.li, after a
\* carry into the first symbol.
C29_Witness ==
    /\ regexFilter = "" /\ pattern = "d" /\ length = 2 /\ suffix = DefaultSuffix
    /\ Len(emitted) = 100
    /\ emitted[11] = <<"1", "0", ".", "l", "i">>
    /\ emitted[100] = <<"9", "9", ".", "l", "i">>

\* C30: the DNS probe.  For the answers the five lookups of one call gave:
\* DNS_NS, DNS_A, DNS_MX and DNS_TXT are among the signatures exactly when
\* the NS, A, MX and TXT lookup succeeded with a non-empty result; DNS_CNAME
\* exactly when the CNAME lookup succeeded with a non-empty target that is
\* not the query name followed by a dot; so a failed lookup adds nothing and
\* the lookups after it still add theirs.  No signature is added twice, and
\* with DNS checks disabled none is added.
DnsSignatures == {"DNS_NS", "DNS_A", "DNS_MX", "DNS_TXT", "DNS_CNAME"}

TimesIn(sig) == Cardinality({k \in 1..Len(cls.signatures) : cls.signatures[k] = sig})

C30_DnsProbeRules ==
    /\ \A a \in Range(cls.probes.dns) :
         /\ Has("DNS_NS") <=> a.ns = "records"
         /\ Has("DNS_A") <=> a.ip = "records"
         /\ Has("DNS_MX") <=> a.mx = "records"
         /\ Has("DNS_TXT") <=> a.txt = "records"
         /\ Has("DNS_CNAME") <=>
              /\ a.cname.err = Nil
              /\ a.cname.target # <<>>
              /\ a.cname.target # cls.domain \o <<".">>
    /\ \A sig \in DnsSignatures : TimesIn(sig) <= 1
    /\ ~DNSEnabled => \A sig \in DnsSignatures : ~Has(sig)

\* The NS lookup failed, the MX lookup found nothing and the CNAME lookup
\* returned the name itself; the A and TXT lookups after the failure added
\* their signatures.
C30_Witness ==
    /\ cls.pc = "whois" /\ cls.i = 0
    /\ \E a \in Range(cls.probes.dns) :
         /\ a.ns = "error" /\ a.ip = "records" /\ a.mx = "empty" /\ a.txt = "records"
         /\ a.cname.err = Nil /\ a.cname.target = cls.domain \o <<".">>
    /\ cls.signatures = <<"DNS_A", "DNS_TXT">>

\* C31: one call of CheckDomainAvailability appends at most one
\* special-status record, for its own candidate and at its return; a record
\* with status WHOIS_RATE_LIMITED is appended only by a call that returns
\* Available = true, a record with any other status only by a call that
\* returns Available = false.
AppendedByCall == SubSeq(specialStatusDomains, Len(cls.before) + 1, Len(specialStatusDomains))

C31_AtMostOneRecordPerCall ==
    /\ Len(specialStatusDomains) >= Len(cls.before)
    /\ SubSeq(specialStatusDomains, 1, Len(cls.before)) = cls.before
    /\ Len(AppendedByCall) <= 1
    /\ \A rec \in Range(AppendedByCall) :
         /\ rec.Domain = cls.domain
         /\ cls.pc = "return"
         /\ cls.err = Nil
         /\ rec.Status = WHOIS_RATE_LIMITED => cls.available
         /\ rec.Status # WHOIS_RATE_LIMITED => ~cls.available

\* A call on a list that already held a record has returned Available = true
\* after its fifth rate-limited query and appended WHOIS_RATE_LIMITED.
C31_Witness ==
    /\ cls.pc = "return" /\ cls.available /\ cls.fallback
    /\ Len(cls.before) = 1
    /\ AppendedByCall = <<SpecialStatusDomain(cls.domain, WHOIS_RATE_LIMITED)>>

\* C32: the Error field of every Result a worker produces is nil:
\* CheckDomainSignatures returns a nil error whatever its probes answered,
\* so CheckDomainAvailability returns a nil error from each of its return
\* statements, and the Result built from its return values is not one the
\* aggregator's error branch takes.
C32_NoErrorReturned ==
    /\ cls.probes.err = Nil
    /\ cls.pc \in {"final", "return"} => cls.err = Nil
    /\ cls.pc = "return" => ResultOf(cls.domain, cls.available, cls.err).Error = Nil

\* The part of C32 about the run of main.go: no Result in a worker's hand,
\* in the results channel or in the aggregator's hand has an Error, and no
\* error message is on the status channel.
C32_ErrorBranchNeverTaken ==
    /\ \A w \in Workers : wPc[w] = "send" => wResult[w].Error = Nil
    /\ \A k \in 1..Len(results) : results[k].Error = Nil
    /\ aggPc = "handle" => aggItem.Error = Nil
    /\ \A k \in 1..Len(statusChan) : statusChan[k].kind # "error"

\* Every probe failed: three WHOIS queries of the signature loop and five of
\* the final loop without an answer, and the call returned (true, nil).
C32_Witness ==
    /\ cls.pc = "return" /\ cls.err = Nil /\ cls.available
    /\ cls.sigQueries = 3 /\ cls.sigText = <<>>
    /\ cls.attempts = 5 /\ ~cls.answered /\ ~cls.fallback
    /\ cls.signatures = <<>>

\* C33: handleRateLimitedDomain is only reached with hasDNSSignatures =
\* false: a call that found a DNS signature has returned Registered before
\* the final WHOIS loop, so the loop runs, and the fallback is called, only
\* without one; the fallback therefore always returns Available = true.
C33_FallbackOnlyWithoutDns ==
    /\ cls.pc = "final" =>
         /\ ~cls.hasDNSSignatures
         /\ ~hasDNSSignaturesOf(cls.signatures)
    /\ (cls.pc = "return" /\ hasDNSSignaturesOf(cls.signatures)) =>
         (~cls.available /\ cls.attempts = 0 /\ ~cls.fallback)
    /\ cls.fallback =>
         /\ cls.pc = "return"
         /\ ~cls.hasDNSSignatures
         /\ cls.available

\* With no configuration installed, five rate-limited queries of the final
\* loop ended in the fallback, which returned Available = true.
C33_Witness ==
    /\ cls.fallback /\ cls.available
    /\ cls.limited = 5 /\ cls.attempts = 5
    /\ globalConfig = NilConfig
    /\ specialStatusDomains = <<>>

\* C34: the probe switches of the installed configuration are honoured:
\* with WHOISCheck = false a call issues no WHOIS query, with DNSCheck =
\* false no DNS lookup, with SSLCheck = false no TLS dial.
C34_SwitchesHonoured ==
    /\ ~WHOISEnabled => (cls.sigQueries = 0 /\ cls.attempts = 0)
    /\ ~DNSEnabled => ("dns" \notin Range(cls.probes.ran) /\ cls.probes.dns = <<>>)
    /\ ~SSLEnabled => ("ssl" \notin Range(cls.probes.ran) /\ cls.probes.tls = <<>>)

\* The part of C34 that holds: CheckDomainSignatures honours the three
\* switches (its WHOIS loop makes no query with WHOISCheck = false), and the
\* signatures of a call hold nothing of a probe that is switched off.
C34_SignatureProbesHonourSwitches ==
    /\ ~WHOISEnabled =>
         /\ cls.sigQueries = 0
         /\ "whois" \notin Range(cls.probes.ran)
         /\ ~Has("WHOIS") /\ ~Has("RESERVED")
    /\ ~DNSEnabled =>
         /\ "dns" \notin Range(cls.probes.ran) /\ cls.probes.dns = <<>>
         /\ ~hasDNSSignaturesOf(cls.signatures)
    /\ ~SSLEnabled =>
         /\ "ssl" \notin Range(cls.probes.ran) /\ cls.probes.tls = <<>>
         /\ ~Has("SSL")

\* The int with the value n, for a natural n below 2^31.
IntOf(n) == <<n % LimbBase, n \div LimbBase, 0, 0>>

\* C35: for every pattern in {d, D, a} and every length >= 0,
\* CalculateDomainsCount(length, pattern) is the number of candidates
\* GenerateDomains emits for that length and pattern with no regex filter;
\* for any other pattern it is 0.
C35_CountIsNumberEmitted ==
    /\ (genPc = "closed" /\ regexFilter = "" /\ ValidPattern(pattern)) =>
         CalculateDomainsCount(length, pattern) = IntOf(Len(emitted))
    /\ ~ValidPattern(pattern) => CalculateDomainsCount(length, pattern) = IntZero

\* The part of C35 that holds: the two agree for the lengths >= 1 whose
\* alphabetSize^length fits the int `total`, and the count of any other
\* pattern is 0.
C35_AgreesFromLengthOneWhileTotalFits ==
    /\ (genPc = "closed" /\ regexFilter = "" /\ ValidPattern(pattern) /\ length >= 1
          /\ ~IntNegative(total)) =>
         CalculateDomainsCount(length, pattern) = IntOf(Len(emitted))
    /\ ~ValidPattern(pattern) => CalculateDomainsCount(length, pattern) = IntZero

\* C36: in the main of part_004 every candidate the generator emits is
\* forwarded to the jobs queue and processed by exactly one worker (each
\* emitted candidate is in the generator channel, in the forwarder's hand,
\* in the jobs queue or was received by a worker, once), and no worker has a
\* Result to send once the results channel is closed.
C36_NoCandidateLost ==
    Len(emitted) = Len(domainChan) + (IF fwdPc = "send" THEN 1 ELSE 0)
                     + Len(jobs) + BagCardinality(received)

C36_NoSendAfterClose ==
    resultsClosed => \A w \in Workers : wPc[w] # "send"

C36_AllForwardedNoLateSend ==
    /\ C36_NoCandidateLost
    /\ \A d \in Range(emitted) : CopiesIn(d, received) <= 1
    /\ C36_NoSendAfterClose

\* C37: checkSpecialStatus is deterministic: two calls with the same WHOIS
\* text return the same (found, status) pair, also for a text that contains
\* more than one indicator.
C37_SameTextSameStatus ==
    \A j, k \in 1..Len(statusCalls) :
        statusCalls[j].text = statusCalls[k].text =>
            /\ statusCalls[j].found = statusCalls[k].found
            /\ statusCalls[j].status = statusCalls[k].status

\* The part of C37 that holds: whether a status is found is the same for
\* every call with the same text, and so is the status when the text
\* contains one indicator only.
C37_FoundIsDeterministic ==
    \A j, k \in 1..Len(statusCalls) :
        statusCalls[j].text = statusCalls[k].text =>
            /\ statusCalls[j].found = statusCalls[k].found
            /\ Cardinality({ e \in statusOfIndicator :
                               Contains(ToLower(statusCalls[j].text), e.indicator) }) <= 1
                 => statusCalls[j].status = statusCalls[k].status

\* C38 -- The classification variants agree: whenever two of the three
\* CheckDomainAvailability variants were called on the same WHOIS text, a text
\* without any rate-limit phrase, answered at the first attempt and with no
\* DNS or TLS evidence, they returned the same Available value.
C38_VariantsAgree ==
    \A j, k \in 1..Len(variantCalls) :
        /\ variantCalls[j].text = variantCalls[k].text
        /\ ~FinalIsRateLimit(ToLower(variantCalls[j].text))
        => variantCalls[j].available = variantCalls[k].available

\* C38, the agreement that does hold: the variants return the same Available
\* value on a text without rate-limit phrase unless the text has an Available
\* indicator next to a Registered or Reserved one, or a special-status
\* indicator that only the longer list knows.
C38_AgreeApartFromPrecedenceAndList ==
    \A j, k \in 1..Len(variantCalls) :
        LET result == ToLower(variantCalls[j].text)
        IN  /\ variantCalls[j].text = variantCalls[k].text
            /\ ~FinalIsRateLimit(result)
            /\ ~(/\ ContainsAny(result, availableIndicators)
                 /\ ContainsAny(result, registeredIndicators \o reservedIndicators))
            /\ ContainsAny(result, specialStatusIndicators)
                 => ContainsAny(result, specialStatusIndicatorsChecker)
            => variantCalls[j].available = variantCalls[k].available

====
